---- MODULE Spec2Model ----
(***************************************************************************)
(* Kelemetry: the audit pipeline (audit consumer, diff decorator, diff     *)
(* cache), the local message bus and the diff controller's monitor         *)
(* reconciliation, each as a state machine over its own variables.         *)
(*                                                                         *)
(*   SpecAudit   audit consumer + diff decorator + diff cache              *)
(*   FairAudit   SpecAudit with the decorator's polling goroutine fair     *)
(*   SpecBus     local message bus: producers, queues, consumer workers    *)
(*   SpecCtrl    diff controller: discovery resync and monitors            *)
(*   FairBus     a started bus with its consumer workers fair              *)
(*   SpecPool    diff controller: watch events and the task pool           *)
(*   SpecEvent   event informer: watermark config map and handlers         *)
(*   SpecWorkers event informer: worker goroutines and their mailbox       *)
(*   SpecTransform  trace transformation pipeline of the frontend          *)
(*   SpecHttp    redirect server and diff API handlers                     *)
(*                                                                         *)
(* Time is counted in seconds from the instant a decoration starts.        *)
(***************************************************************************)
EXTENDS Integers, Sequences, FiniteSets, TLC

VARIABLES
    \* ---- audit consumer / diff decorator ----
    msg,            \* the audit message being handled, or NoMsg
    pc,             \* "idle" | "try" (immediate attempt pending) | "wait" (in the poll's
                    \* select) | "done" (the handler returned)
    elapsed,        \* seconds since tryDecorate created its contexts
    nextTick,       \* when the poller's ticker fires next
    retryCount,     \* tryDecorate's retryCount
    lastFetchAt,    \* when the latest tryOnce started (-1: none yet)
    fetchErr,       \* tryDecorate's err: TRUE when the latest tryOnce returned an error
    anyFetchErr,    \* some tryOnce of this decoration returned an error
    fetched,        \* what the cache returned to the tryOnce that hit, or None
    outcome,        \* diffMetric.CacheHit as set by Decorate ("" while Decorate has not run)
    retryHist,      \* value given to retryCountMetric.Histogram (-1: none)
    eventLogs,      \* the event's logs, as the sequence of their log types
    eventTags,      \* the tags decorators added to the event
    eventField,     \* the field of the event handleItem built ("" when none was built)
    decorateCalls,  \* calls of decoratorList.Decorate for this message
    aggregatorSends,\* calls of aggregator.Send for this message
    auditConsumer,  \* the consumer goroutine that calls the handler: "running" | "exited"
    badSeen,        \* this consumer has handled a message it gave up on
    \* ---- diff cache ----
    patch,          \* the patch stored for the object, or None
    snapshot,       \* snapshot name -> the snapshot stored for the object, or None
    patchStoredAt,  \* during a decoration: when the patch was first stored
    patchStoredAfter,\* during a decoration: retryCount when the patch was first stored
    \* ---- local message bus ----
    busPhase,       \* "init" | "running" (Start returned nil) | "failed" (Start returned an error)
    partitionByObject, \* --mq-local-partition-by-object
    consumers,      \* group -> set of registered partitions
    numPartitions,  \* localQueue.numPartitions
    offsetCounter,  \* localProducer.offsetCounter
    uq,             \* <<group, partition>> -> queue of messages
    sender,         \* producer goroutine -> its Send call in progress
    handled,        \* group -> messages in the order the handler was invoked
    createResult,   \* what the latest CreateConsumer call returned (NoCreate once the
                    \* queue is started)
    \* ---- diff controller ----
    discovery,      \* what the discovery cache's GetAll returns: gvr -> API resource
    resyncCh,       \* a notification is pending on ctrl.discoveryResyncCh
    stopped,        \* stopCh is closed
    monitors,       \* ctrl.monitors: gvr -> monitor instance, or NoMonitor
    closeCount,     \* monitor instance -> times its stop channel was closed
    nextMonitor,    \* the next monitor instance startMonitor creates
    loopPc,         \* resyncMonitorsLoop: "select" | "resync" | "blocked"
    monitorsLock,   \* ctrl.monitorsLock: "free" | "write"
    attempts,       \* calls of resyncMonitors retry.OnError made for this notification
    lastResync,     \* how the latest resyncMonitors call ended: "none" | "ok" | "error"
    fresh,          \* discovery is what the latest successful resyncMonitors read
    before,         \* ctrl.monitors when the latest successful resyncMonitors began
    \* ---- diff controller: one watched object, the task pool, the workers ----
    deletionSnapshot, \* --diff-controller-deletion-snapshot
    nameRedacted,   \* the object's g/v/r/namespace/name matches --diff-controller-redact-pattern
    object,         \* the object as the monitor's store holds it, or Gone
    watchEvents,    \* notifications the watch stream has delivered
    taskPool,       \* ctrl.taskPool: the queue of tasks
    worker,         \* worker -> what its runWorker goroutine is doing
    stored,         \* the patches given to cache.Store, in the order of the calls
    snapshotStores, \* calls of cache.StoreSnapshot(object, "deletion", ...)
    \* ---- event informer ----
    evNow,          \* clock.Now() of this run, in half seconds
    cmServer,       \* the ConfigMap as the API server holds it
    cmLocal,        \* syncConfigMap's configMap
    lastEventTime,  \* ctrl.lastEventTime
    startReadyCh,   \* startReadyCh is closed
    syncPc,         \* syncConfigMap: "init" | "poll" | "failed" | "returned" | "panicked"
    changed,        \* pollConfigLoop's changed
    configMapUpdateCh, \* the event times of the updater closures in the channel
    evStopped,      \* the leader's stopCh is closed
    isLeader,       \* ctrl.isLeader
    externalWrites, \* writes of other clients to the ConfigMap
    evHandled,      \* calls of handleEvent
    lastEvent,      \* the latest handleEvent call: its event time and how it ended
    appliedTs,      \* event times whose updater was applied to configMap
    syncedTs,       \* event times applied before the latest successful Update
    evWorker,       \* worker of runLeader -> where its goroutine is, and the event time it sends
    \* ---- transform pipeline ----
    tfTree,         \* the SpanTree: span id -> span, tree.Root is span 1
    tfSteps,        \* the configured visitors, in their order
    tfApplied,      \* applications of the pipeline to the tree
    tfOnce,         \* the tree after the first application
    tfInput,        \* the tree as the reader assembled it
    \* ---- HTTP endpoints: /redirect and the diff API ----
    httpRequest,    \* the latest request: its route, parameters and what the back ends did
    httpResponse,   \* what was written to the client for it
    httpServed      \* requests served

auditVars == <<msg, pc, elapsed, nextTick, retryCount, lastFetchAt, fetchErr, anyFetchErr, fetched,
               outcome, retryHist, eventLogs, eventTags, eventField, decorateCalls, aggregatorSends>>
consumerVars == <<auditConsumer, badSeen>>
cacheVars == <<patch, snapshot, patchStoredAt, patchStoredAfter>>
busVars   == <<busPhase, partitionByObject, consumers, numPartitions, offsetCounter, uq, sender, handled,
               createResult>>
ctrlVars  == <<discovery, resyncCh, stopped, monitors, closeCount, nextMonitor, loopPc,
               monitorsLock, attempts, lastResync, fresh, before>>
outsidePool == <<auditVars, consumerVars, cacheVars, busVars, ctrlVars>>
poolVars  == <<deletionSnapshot, nameRedacted, object, watchEvents, taskPool, worker, stored, snapshotStores>>
\* the variables of the components added after the first four
evVars    == <<evNow, cmServer, cmLocal, lastEventTime, startReadyCh, syncPc, changed,
               configMapUpdateCh, evStopped, isLeader, externalWrites, evHandled, lastEvent,
               appliedTs, syncedTs, evWorker>>
tfVars    == <<tfTree, tfSteps, tfApplied, tfOnce, tfInput>>
httpVars  == <<httpRequest, httpResponse, httpServed>>
outsideEv == <<auditVars, consumerVars, cacheVars, busVars, ctrlVars, poolVars, tfVars, httpVars>>
restVars  == <<poolVars, evVars, tfVars, httpVars>>
vars      == <<auditVars, consumerVars, cacheVars, busVars, ctrlVars, restVars>>

Min(a, b) == IF a <= b THEN a ELSE b

\* "nothing stored" in the diff cache
None == [present |-> FALSE]

(***************************************************************************)
(* Audit messages                                                          *)
(***************************************************************************)
NoMsg == [decodable |-> FALSE, cluster |-> "", verb |-> ""]

VerbCreate == "create"
VerbUpdate == "update"
VerbDelete == "delete"
VerbPatch  == "patch"
StageResponseComplete == "ResponseComplete"

supportedVerbs == {VerbCreate, VerbUpdate, VerbDelete, VerbPatch}

Verbs    == supportedVerbs \cup {"get"}
Stages   == {StageResponseComplete, "ResponseStarted"}
Clusters == {"c1", "c2"}
\* Resource versions of the observed object; "" is the empty string.
RVs      == {"100", "101"}
\* message.ResponseObject: nil, bytes that are no JSON, a JSON object that is
\* no PartialObjectMetadata, or an object carrying a resourceVersion.
ResponseObjects == {"nil", "invalidJson", "badMeta"} \cup RVs
\* seconds between stageTimestamp and the start of the decoration
StageAges == {2, 8, 16}
\* message.ResponseStatus.Code (meaningful when hasStatus)
Codes     == {200, 409}
MaxCauses == 1

\* message.ObjectRef.Subresource
Subresources == {"", "status"}

AuditMessages ==
    {[decodable |-> FALSE, cluster |-> c, verb |-> ""] : c \in Clusters}
    \cup
    {m \in [decodable : {TRUE}, cluster : Clusters, verb : Verbs, stage : Stages,
            filterPass : BOOLEAN, hasObjectRef : BOOLEAN, gvkKnown : BOOLEAN,
            subresource : Subresources,
            responseObject : ResponseObjects, hasStatus : BOOLEAN, code : Codes,
            causes : 0..MaxCauses, stageAge : StageAges] :
        \* fields that do not exist take one value
        /\ (~m.hasStatus => m.code = 200)
        /\ (m.code < 300 => m.causes = 0)
        /\ (m.hasObjectRef \/ m.responseObject \notin RVs => m.gvkKnown)
        \* an inferred object reference has no subresource
        /\ (~m.hasObjectRef => m.subresource = "")
        \* the subresource bears on the field only: it is varied on fresh,
        \* successful requests whose response carries the new object
        /\ (m.subresource # "" => m.stageAge = 2 /\ m.code = 200 /\ m.responseObject = "101")}

\* --audit-consumer-filter-cluster-name
clusterFilter == "c1"

\* message.ObjectRef.ResourceVersion: the request's version, or "" when the
\* reference was inferred from the response object.
ObjectRefResourceVersion(m) == IF m.hasObjectRef THEN "100" ELSE ""

inferObjectRef(m) == m.responseObject \in RVs /\ m.gvkKnown

handleItemExitNoStage(m) ==
    IF m.verb \notin supportedVerbs THEN "verb"
    ELSE IF ~m.filterPass THEN "filter"
    ELSE IF ~m.hasObjectRef /\ ~inferObjectRef(m) THEN "objectRef"
    ELSE IF m.responseObject = "invalidJson" THEN "responseObject"
    ELSE IF ~m.hasStatus THEN "panic"
    ELSE "accept"

\* Where handleItem leaves: one of its early returns, the nil dereference of
\* message.ResponseStatus (recovered by the deferred RecoverPanic), or "accept".
handleItemExit(m) ==
    IF m.verb \notin supportedVerbs THEN "verb"
    ELSE IF m.stage # StageResponseComplete THEN "stage"
    ELSE IF ~m.filterPass THEN "filter"
    ELSE IF ~m.hasObjectRef /\ ~inferObjectRef(m) THEN "objectRef"
    ELSE IF m.responseObject = "invalidJson" THEN "responseObject"
    ELSE IF ~m.hasStatus THEN "panic"
    ELSE "accept"

\* handleItem's field with "status" chosen for every verb
fieldAnyVerb(m) ==
    IF m.subresource = "status" THEN "status"
    ELSE IF m.verb = VerbDelete THEN "deletion"
    ELSE "spec"

\* The field handleItem gives the event.
field(m) ==
    IF m.verb = VerbUpdate /\ m.subresource = "status" THEN "status"
    ELSE IF m.verb = VerbDelete THEN "deletion"
    ELSE "spec"

\* Where handleMessage leaves before handleItem, or "item".
handleMessageExit(m) ==
    IF clusterFilter # "" /\ clusterFilter # m.cluster THEN "cluster"
    ELSE IF ~m.decodable THEN "decode"
    ELSE "item"

\* handleItem defers shutdown.RecoverPanic before anything else
handleItemRecovers == TRUE

\* handleItem lets its panic reach the consumer's loop, whose deferred
\* RecoverPanic then ends the consumer goroutine
consumerAfterNoRecover(m) ==
    IF handleMessageExit(m) = "item" /\ handleItemExit(m) = "panic"
    THEN "exited" ELSE "running"

\* The consumer goroutine once the handler is done with m: a panic that
\* leaves the handler ends the goroutine (the loop's RecoverPanic is deferred
\* outside the loop); a panic recovered inside handleItem is a plain return.
consumerAfter(m) ==
    IF handleMessageExit(m) = "item" /\ handleItemExit(m) = "panic" /\ ~handleItemRecovers
    THEN "exited" ELSE "running"

\* a record the consumer gives up on: not decodable, rejected by the filter,
\* without a reconstructible object reference, or one that makes handling panic
BadRecord(m) ==
    \/ handleMessageExit(m) = "decode"
    \/ /\ handleMessageExit(m) = "item"
       /\ handleItemExit(m) \in {"filter", "objectRef", "panic"}

(***************************************************************************)
(* Diff decorator                                                          *)
(***************************************************************************)
fetchBackoff      == 1
fetchEventTimeout == 15
fetchTotalTimeout == 10

cacheHitTypeTrue            == "true"
cacheHitTypeFalse           == "false"
cacheHitTypeError           == "failedRequest"
cacheHitTypeNoObjectRef     == "noObjectRef"
cacheHitTypeRawJsonDecode   == "rawJsonDecodeError"
cacheHitTypeNoop            == "noopUpdate"
cacheHitTypeFiltered        == "filtered"
cacheHitTypeSameRv          == "sameRv"
cacheHitTypeUndecoratedVerb == "undecoratedVerb"
cacheHitTypeUnsupportedVerb == "unsupportedVerb"

LogTypeRealError      == "realError"
LogTypeRealVerbose    == "realVerbose"
LogTypeKelemetryError == "kelemetryError"
LogTypeObjectDiff     == "objectDiff"
LogTypeObjectSnapshot == "objectSnapshot"

SnapshotNameCreation == "creation"
SnapshotNameDeletion == "deletion"
SnapshotNames == {SnapshotNameCreation, SnapshotNameDeletion}
VerbToSnapshotName == (VerbCreate :> SnapshotNameCreation) @@ (VerbDelete :> SnapshotNameDeletion)

\* decoratesResource that lets every verb through
decoratesResourceAll(m) == TRUE

decoratesResource(m) == m.verb # VerbPatch

\* respObj # nil after the decode of message.ResponseObject.Raw
respObjNonNil(m) == m.responseObject \in RVs
responseRv(m) == IF respObjNonNil(m) THEN m.responseObject ELSE ""
\* newRv of the update branch: nil ("nil") when responseRv is empty
newRvOf(m) == IF responseRv(m) # "" THEN responseRv(m) ELSE "nil"

Repeat(x, n) == [i \in 1..n |-> x]

\* tryDecorate without its two tests for equal resource versions
tryDecorateEarlyNoSameRv(m) ==
    IF m.hasStatus /\ m.code >= 300
    THEN [exit |-> "return", hit |-> cacheHitTypeError,
          logs |-> <<LogTypeRealError>> \o Repeat(LogTypeRealError, m.causes), err |-> FALSE]
    ELSE IF m.responseObject = "badMeta"
    THEN [exit |-> "return", hit |-> cacheHitTypeRawJsonDecode,
          logs |-> <<LogTypeKelemetryError>>, err |-> TRUE]
    ELSE IF ~decoratesResource(m)
    THEN [exit |-> "return", hit |-> cacheHitTypeFiltered, logs |-> <<>>, err |-> FALSE]
    ELSE IF m.verb \in {VerbUpdate, VerbPatch, VerbCreate, VerbDelete}
    THEN [exit |-> "poll", hit |-> "", logs |-> <<>>, err |-> FALSE]
    ELSE [exit |-> "return", hit |-> cacheHitTypeUnsupportedVerb, logs |-> <<>>, err |-> FALSE]

\* tryDecorate up to the poll: either a return (hit, logs added, error) or "poll".
tryDecorateEarly(m) ==
    IF m.hasStatus /\ m.code >= 300
    THEN [exit |-> "return", hit |-> cacheHitTypeError,
          logs |-> <<LogTypeRealError>> \o Repeat(LogTypeRealError, m.causes), err |-> FALSE]
    ELSE IF m.responseObject = "badMeta"
    THEN [exit |-> "return", hit |-> cacheHitTypeRawJsonDecode,
          logs |-> <<LogTypeKelemetryError>>, err |-> TRUE]
    ELSE IF m.verb \in {VerbUpdate, VerbPatch} /\ respObjNonNil(m)
            /\ ObjectRefResourceVersion(m) = responseRv(m)
    THEN [exit |-> "return", hit |-> cacheHitTypeNoop,
          logs |-> <<LogTypeRealVerbose>>, err |-> FALSE]
    ELSE IF ~decoratesResource(m)
    THEN [exit |-> "return", hit |-> cacheHitTypeFiltered, logs |-> <<>>, err |-> FALSE]
    ELSE IF m.verb \in {VerbUpdate, VerbPatch}
    THEN IF newRvOf(m) # "nil" /\ ObjectRefResourceVersion(m) = newRvOf(m)
         THEN [exit |-> "return", hit |-> cacheHitTypeSameRv,
               logs |-> <<LogTypeRealVerbose>>, err |-> FALSE]
         ELSE [exit |-> "poll", hit |-> "", logs |-> <<>>, err |-> FALSE]
    ELSE IF m.verb \in {VerbCreate, VerbDelete}
    THEN IF m.verb \notin DOMAIN VerbToSnapshotName
         THEN [exit |-> "return", hit |-> cacheHitTypeUndecoratedVerb, logs |-> <<>>, err |-> FALSE]
         ELSE [exit |-> "poll", hit |-> "", logs |-> <<>>, err |-> FALSE]
    ELSE [exit |-> "return", hit |-> cacheHitTypeUnsupportedVerb, logs |-> <<>>, err |-> FALSE]

(***************************************************************************)
(* Diff cache (contract of diffcache.Cache; one observed object)           *)
(***************************************************************************)
\* keying mode of the cache (GetCommonOptions): by the old resource version
UseOldResourceVersion == TRUE

\* Fetch(ctx, object, oldRv, newRv): the patch whose key matches, or None
Fetch(oldRv, newRv) ==
    IF patch.present
       /\ (IF UseOldResourceVersion THEN patch.old = oldRv ELSE patch.new = newRv)
    THEN patch ELSE None

\* FetchSnapshot(ctx, object, snapshotName)
FetchSnapshot(snapshotName) == snapshot[snapshotName]

(***************************************************************************)
(* Diff decorator: one attempt, and the poll around it                     *)
(***************************************************************************)
\* tryUpdateOnce that asks for another attempt after a redacted patch
tryUpdateOnceRedactedMiss(p, failed) ==
    IF failed \/ ~p.present THEN [hit |-> FALSE, logs |-> <<>>, tags |-> {}, got |-> None]
    ELSE IF p.redacted
    THEN [hit |-> FALSE, logs |-> <<LogTypeKelemetryError>>, tags |-> {}, got |-> p]
    ELSE [hit |-> TRUE, logs |-> <<LogTypeObjectDiff>>, tags |-> {"informer latency"}, got |-> p]

\* tryUpdateOnce without the test of patch.Redacted
tryUpdateOnceLogsRedacted(p, failed) ==
    IF failed \/ ~p.present THEN [hit |-> FALSE, logs |-> <<>>, tags |-> {}, got |-> None]
    ELSE [hit |-> TRUE, logs |-> <<LogTypeObjectDiff>>, tags |-> {"informer latency"}, got |-> p]

\* tryUpdateOnce on what Fetch returned (failed: Fetch returned an error)
tryUpdateOnce(p, failed) ==
    IF failed \/ ~p.present THEN [hit |-> FALSE, logs |-> <<>>, tags |-> {}, got |-> None]
    ELSE IF p.redacted
    THEN [hit |-> TRUE, logs |-> <<LogTypeKelemetryError>>, tags |-> {}, got |-> p]
    ELSE [hit |-> TRUE, logs |-> <<LogTypeObjectDiff>>, tags |-> {"informer latency"}, got |-> p]

\* tryCreateDeleteOnce without the test of snapshot.Redacted
tryCreateDeleteOnceLogsRedacted(s, failed) ==
    IF failed \/ ~s.present THEN [hit |-> FALSE, logs |-> <<>>, tags |-> {}, got |-> None]
    ELSE [hit |-> TRUE, logs |-> <<LogTypeObjectSnapshot>>, tags |-> {}, got |-> s]

\* tryCreateDeleteOnce on what FetchSnapshot returned
tryCreateDeleteOnce(s, failed) ==
    IF failed \/ ~s.present THEN [hit |-> FALSE, logs |-> <<>>, tags |-> {}, got |-> None]
    ELSE IF ~s.redacted
    THEN [hit |-> TRUE, logs |-> <<LogTypeObjectSnapshot>>, tags |-> {}, got |-> s]
    ELSE [hit |-> TRUE, logs |-> <<>>, tags |-> {}, got |-> s]

\* the tryOnce closure tryDecorate builds for the message's verb
tryOnce(m, failed) ==
    IF m.verb \in {VerbUpdate, VerbPatch}
    THEN tryUpdateOnce(Fetch(ObjectRefResourceVersion(m), newRvOf(m)), failed)
    ELSE tryCreateDeleteOnce(FetchSnapshot(VerbToSnapshotName[m.verb]), failed)

\* retryCtx built without the event deadline
retryDeadlineTotalOnly(m) == fetchTotalTimeout

\* retryCtx derived from the component's context instead of totalCtx
retryDeadlineEventOnly(m) == fetchEventTimeout - m.stageAge

\* Deadline of retryCtx, in seconds after the contexts were created: the
\* earlier of totalCtx's timeout and stageTimestamp + fetchEventTimeout.
retryDeadline(m) == Min(fetchTotalTimeout, fetchEventTimeout - m.stageAge)

\* Time stops being advanced past this bound.
MaxElapsed == 12

\* aggregator.Send issued a second time once tryDecorate returned
DeliveredResent(hit, logs, tags, err) ==
    /\ outcome' = hit
    /\ eventLogs' = IF err THEN logs \o <<LogTypeKelemetryError>> ELSE logs
    /\ eventTags' = tags
    /\ aggregatorSends' = aggregatorSends + 2
    /\ pc' = "done"

\* a poll whose condition function does not report the hit as done
DeliveredKeepsPolling(hit, logs, tags, err) ==
    /\ outcome' = hit
    /\ eventLogs' = IF err THEN logs \o <<LogTypeKelemetryError>> ELSE logs
    /\ eventTags' = tags
    /\ aggregatorSends' = aggregatorSends
    /\ pc' = IF hit = cacheHitTypeTrue THEN "wait" ELSE "done"

\* The rest of Decorate and of handleItem once tryDecorate returned:
\* the error log, the metric label, then aggregator.Send.
Delivered(hit, logs, tags, err) ==
    /\ outcome' = hit
    /\ eventLogs' = IF err THEN logs \o <<LogTypeKelemetryError>> ELSE logs
    /\ eventTags' = tags
    /\ aggregatorSends' = aggregatorSends + 1
    /\ pc' = "done"

\* tryDecorate returning, along with a hit, the error of an earlier attempt
PollReturnedStaleError(cacheHit, logs, tags, err, count) ==
    /\ retryHist' = count
    /\ IF cacheHit
       THEN Delivered(cacheHitTypeTrue, logs, tags, anyFetchErr')
       ELSE Delivered(cacheHitTypeFalse, logs, tags, err)

\* tryDecorate after PollImmediateUntil returned
PollReturned(cacheHit, logs, tags, err, count) ==
    /\ retryHist' = count
    /\ IF cacheHit
       THEN Delivered(cacheHitTypeTrue, logs, tags, FALSE)
       ELSE Delivered(cacheHitTypeFalse, logs, tags, err)

\* One run of the poll's condition function. After the immediate run the poll
\* returns if retryCtx is already done, else it starts the ticker.
Condition(first) ==
    \E failed \in BOOLEAN :
        LET r == tryOnce(msg, failed)
            logs == eventLogs \o r.logs
            tags == eventTags \cup r.tags
        IN /\ retryCount' = retryCount + 1
           /\ lastFetchAt' = elapsed
           /\ fetchErr' = failed
           /\ anyFetchErr' = (anyFetchErr \/ failed)
           /\ fetched' = IF r.hit THEN r.got ELSE None
           /\ IF r.hit
              THEN /\ PollReturned(TRUE, logs, tags, failed, retryCount + 1)
                   /\ UNCHANGED nextTick
              ELSE IF first /\ retryDeadline(msg) <= elapsed
              THEN /\ PollReturned(FALSE, logs, tags, failed, retryCount + 1)
                   /\ UNCHANGED nextTick
              ELSE /\ pc' = "wait"
                   /\ nextTick' = IF first THEN elapsed + fetchBackoff
                                  ELSE nextTick + fetchBackoff
                   /\ UNCHANGED <<outcome, retryHist, eventLogs, eventTags, aggregatorSends>>

InitAudit ==
    /\ auditConsumer = "running"
    /\ badSeen = FALSE
    /\ msg = NoMsg
    /\ pc = "idle"
    /\ elapsed = 0
    /\ nextTick = 0
    /\ retryCount = 0
    /\ lastFetchAt = -1
    /\ fetchErr = FALSE
    /\ anyFetchErr = FALSE
    /\ fetched = None
    /\ outcome = ""
    /\ retryHist = -1
    /\ eventLogs = <<>>
    /\ eventTags = {}
    /\ eventField = ""
    /\ decorateCalls = 0
    /\ aggregatorSends = 0

InitCache ==
    /\ patch = None
    /\ snapshot = [n \in SnapshotNames |-> None]
    /\ patchStoredAt = 0
    /\ patchStoredAfter = 0

\* receiver.handleMessage, up to the point where the decorator starts to poll
handleMessage(m) ==
    /\ msg' = m
    /\ elapsed' = 0
    /\ nextTick' = 0
    /\ retryCount' = 0
    /\ lastFetchAt' = -1
    /\ fetchErr' = FALSE
    /\ anyFetchErr' = FALSE
    /\ fetched' = None
    /\ retryHist' = -1
    /\ patchStoredAt' = 0
    /\ patchStoredAfter' = 0
    /\ UNCHANGED <<patch, snapshot>>
    /\ IF handleMessageExit(m) # "item" \/ handleItemExit(m) # "accept"
       THEN /\ pc' = "done"
            /\ outcome' = ""
            /\ eventLogs' = <<>>
            /\ eventTags' = {}
            /\ eventField' = ""
            /\ decorateCalls' = 0
            /\ aggregatorSends' = 0
       ELSE /\ eventField' = field(m)
            /\ decorateCalls' = 1
            /\ LET e == tryDecorateEarly(m)
               IN IF e.exit = "return"
                  THEN /\ outcome' = e.hit
                       /\ eventLogs' = IF e.err THEN e.logs \o <<LogTypeKelemetryError>> ELSE e.logs
                       /\ eventTags' = {}
                       /\ aggregatorSends' = 1
                       /\ pc' = "done"
                  ELSE /\ outcome' = ""
                       /\ eventLogs' = <<>>
                       /\ eventTags' = {}
                       /\ aggregatorSends' = 0
                       /\ pc' = "try"

HandleMessage ==
    /\ pc = "idle"
    /\ auditConsumer = "running"
    /\ \E m \in AuditMessages :
           /\ handleMessage(m)
           /\ auditConsumer' = consumerAfter(m)
    /\ UNCHANGED <<badSeen, busVars, ctrlVars, restVars>>

\* the consumer's loop is back at its receive
Return ==
    /\ pc = "done"
    /\ msg' = NoMsg
    /\ pc' = "idle"
    /\ elapsed' = 0
    /\ nextTick' = 0
    /\ retryCount' = 0
    /\ lastFetchAt' = -1
    /\ fetchErr' = FALSE
    /\ anyFetchErr' = FALSE
    /\ fetched' = None
    /\ outcome' = ""
    /\ retryHist' = -1
    /\ eventLogs' = <<>>
    /\ eventTags' = {}
    /\ eventField' = ""
    /\ decorateCalls' = 0
    /\ aggregatorSends' = 0
    /\ patchStoredAt' = 0
    /\ patchStoredAfter' = 0
    /\ badSeen' = (badSeen \/ BadRecord(msg))
    /\ UNCHANGED <<auditConsumer, patch, snapshot, busVars, ctrlVars, restVars>>

\* PollImmediateUntil runs the condition once before it looks at the stop channel
PollImmediate ==
    /\ pc = "try"
    /\ Condition(TRUE)
    /\ UNCHANGED <<msg, elapsed, eventField, decorateCalls, cacheVars, busVars, ctrlVars, consumerVars, restVars>>

\* the select in WaitFor receives a tick
PollRetry ==
    /\ pc = "wait"
    /\ elapsed >= nextTick
    /\ Condition(FALSE)
    /\ UNCHANGED <<msg, elapsed, eventField, decorateCalls, cacheVars, busVars, ctrlVars, consumerVars, restVars>>

\* the select in WaitFor finds retryCtx done
PollStop ==
    /\ pc = "wait"
    /\ elapsed >= retryDeadline(msg)
    /\ PollReturned(FALSE, eventLogs, eventTags, fetchErr, retryCount)
    /\ UNCHANGED <<msg, elapsed, nextTick, retryCount, lastFetchAt, fetchErr, anyFetchErr,
                   fetched, eventField, decorateCalls, cacheVars, busVars, ctrlVars, consumerVars, restVars>>

\* a second passes while the poll is blocked in its select
Tick ==
    /\ pc = "wait"
    /\ elapsed < nextTick
    /\ elapsed < retryDeadline(msg)
    /\ elapsed < MaxElapsed
    /\ elapsed' = elapsed + 1
    /\ UNCHANGED <<msg, pc, nextTick, retryCount, lastFetchAt, fetchErr, anyFetchErr, fetched,
                   outcome, retryHist, eventLogs, eventTags, eventField, decorateCalls, aggregatorSends,
                   cacheVars, busVars, ctrlVars, consumerVars, restVars>>

\* monitor.onUpdate of the diff controller stores the patch 100 -> 101
StorePatch ==
    /\ \E redacted \in BOOLEAN :
           patch' = [present |-> TRUE, old |-> "100", new |-> "101", redacted |-> redacted]
    /\ IF pc \in {"try", "wait"} /\ ~patch.present
       THEN patchStoredAt' = elapsed /\ patchStoredAfter' = retryCount
       ELSE UNCHANGED <<patchStoredAt, patchStoredAfter>>
    /\ UNCHANGED <<snapshot, auditVars, busVars, ctrlVars, consumerVars, restVars>>

\* monitor.onNeedSnapshot of the diff controller stores the deletion snapshot
StoreSnapshot ==
    /\ \E redacted \in BOOLEAN :
           snapshot' = [snapshot EXCEPT ![SnapshotNameDeletion] = [present |-> TRUE, redacted |-> redacted]]
    /\ UNCHANGED <<patch, patchStoredAt, patchStoredAfter, auditVars, busVars, ctrlVars, consumerVars, restVars>>

(***************************************************************************)
(* Local message bus                                                       *)
(***************************************************************************)
Groups     == {"g1", "g2"}
Partitions == {0, 1}
Producers  == {"p1", "p2"}
\* a nil partition key (no byte is negative)
NilKey     == <<-1>>
\* partition keys: the byte string "a", and nil
Keys       == {<<97>>, NilKey}
\* Send calls the producer goroutines issue in one run
MaxSends   == 2

\* a goroutine that is not inside Send
NoSend == [state |-> "idle"]

(* hash/fnv New32 (FNV-1), on 32-bit words kept as two 16-bit halves *)
RECURSIVE XorBits(_, _, _)
XorBits(a, b, n) ==
    IF n = 0 THEN 0
    ELSE (((a % 2) + (b % 2)) % 2) + 2 * XorBits(a \div 2, b \div 2, n - 1)

\* offset32 = 2166136261 = 0x811C9DC5
fnvOffset32 == [hi |-> 33052, lo |-> 40389]

\* hash *= prime32, prime32 = 16777619 = 2^24 + 403, modulo 2^32
fnvMulPrime(h) ==
    LET low == h.lo * 403
    IN [hi |-> ((h.hi * 403) + ((h.lo * 256) % 65536) + (low \div 65536)) % 65536,
        lo |-> low % 65536]

\* hash ^= uint32(c)
fnvXorByte(h, c) == [hi |-> h.hi, lo |-> (h.lo - (h.lo % 256)) + XorBits(h.lo % 256, c, 8)]

RECURSIVE fnvSum32(_, _)
fnvSum32(h, key) ==
    IF key = <<>> THEN h
    ELSE fnvSum32(fnvXorByte(fnvMulPrime(h), Head(key)), Tail(key))

\* hash % uint32(n) for n >= 1
Mod32(h, n) == (((h.hi % n) * (65536 % n)) + (h.lo % n)) % n

\* Send that always draws the partition at random
sendPartitionsRandom(key) == 0..(numPartitions - 1)

\* the partitions Send may choose for a key
sendPartitions(key) ==
    IF partitionByObject /\ key # NilKey
    THEN {Mod32(fnvSum32(fnvOffset32, key), numPartitions)}
    ELSE 0..(numPartitions - 1)

NoCreate == [g |-> "", p |-> -1, err |-> FALSE]

\* CreateConsumer that returns no error for a pair already registered
CreateConsumerNoError ==
    /\ busPhase = "init"
    /\ \E g \in Groups, p \in Partitions :
          /\ createResult' = [g |-> g, p |-> p, err |-> FALSE]
          /\ IF g \in DOMAIN consumers /\ p \in consumers[g]
             THEN UNCHANGED <<consumers, uq, handled>>
             ELSE /\ consumers' = [x \in DOMAIN consumers \cup {g} |->
                                      IF x = g
                                      THEN (IF g \in DOMAIN consumers THEN consumers[g] ELSE {}) \cup {p}
                                      ELSE consumers[x]]
                  /\ uq' = (<<g, p>> :> <<>>) @@ uq
                  /\ handled' = (g :> <<>>) @@ handled
    /\ UNCHANGED <<busPhase, partitionByObject, numPartitions, offsetCounter, sender,
                   auditVars, cacheVars, ctrlVars, consumerVars, restVars>>

\* localQueue.CreateConsumer: a second registration of the pair is an error
CreateConsumer ==
    /\ busPhase = "init"
    /\ \E g \in Groups, p \in Partitions :
          IF g \in DOMAIN consumers /\ p \in consumers[g]
          THEN /\ createResult' = [g |-> g, p |-> p, err |-> TRUE]
               /\ UNCHANGED <<consumers, uq, handled>>
          ELSE /\ createResult' = [g |-> g, p |-> p, err |-> FALSE]
               /\ consumers' = [x \in DOMAIN consumers \cup {g} |->
                                   IF x = g
                                   THEN (IF g \in DOMAIN consumers THEN consumers[g] ELSE {}) \cup {p}
                                   ELSE consumers[x]]
               /\ uq' = (<<g, p>> :> <<>>) @@ uq
               /\ handled' = (g :> <<>>) @@ handled
    /\ UNCHANGED <<busPhase, partitionByObject, numPartitions, offsetCounter, sender,
                   auditVars, cacheVars, ctrlVars, consumerVars, restVars>>

\* a check of the partition counts that passes whatever they are
partitionCountsAgreeAlways == TRUE

\* the consumer groups agree on their number of partitions
partitionCountsAgree ==
    \A g1, g2 \in DOMAIN consumers : Cardinality(consumers[g1]) = Cardinality(consumers[g2])

\* localQueue.Start
Start ==
    /\ busPhase = "init"
    /\ IF partitionCountsAgree
       THEN /\ busPhase' = "running"
            /\ numPartitions' = IF DOMAIN consumers = {} THEN -1
                                ELSE Cardinality(consumers[CHOOSE g \in DOMAIN consumers : TRUE])
       ELSE /\ busPhase' = "failed"
            /\ UNCHANGED numPartitions
    /\ createResult' = NoCreate
    /\ UNCHANGED <<partitionByObject, consumers, offsetCounter, uq, sender, handled,
                   auditVars, cacheVars, ctrlVars, consumerVars, restVars>>

\* localProducer.Send, first half: choose the partition, take the next offset
SendBegin(pr) ==
    /\ busPhase = "running"
    /\ numPartitions >= 1
    /\ sender[pr] = NoSend
    /\ offsetCounter < MaxSends
    /\ \E key \in Keys : \E partition \in sendPartitions(key) :
          sender' = [sender EXCEPT ![pr] =
                        [state |-> "enqueue", key |-> key, partition |-> partition,
                         offset |-> offsetCounter + 1, groups |-> DOMAIN consumers]]
    /\ offsetCounter' = offsetCounter + 1
    /\ UNCHANGED <<createResult, busPhase, partitionByObject, consumers, numPartitions, uq, handled,
                   auditVars, cacheVars, ctrlVars, consumerVars, restVars>>

\* localProducer.Send, the loop over the consumer groups (in map order): one
\* uq.Send; a group without a consumer for the partition is a nil dereference
SendEnqueue(pr) ==
    /\ sender[pr].state = "enqueue"
    /\ \E g \in sender[pr].groups :
          IF sender[pr].partition \in consumers[g]
          THEN /\ uq' = [uq EXCEPT ![<<g, sender[pr].partition>>] =
                            Append(@, [offset |-> sender[pr].offset, key |-> sender[pr].key])]
               /\ sender' = [sender EXCEPT ![pr].groups = @ \ {g}]
          ELSE /\ sender' = [sender EXCEPT ![pr] = [state |-> "panicked"]]
               /\ UNCHANGED uq
    /\ UNCHANGED <<createResult, busPhase, partitionByObject, consumers, numPartitions, offsetCounter,
                   handled, auditVars, cacheVars, ctrlVars, consumerVars, restVars>>

\* localProducer.Send returns nil
SendReturn(pr) ==
    /\ sender[pr].state = "enqueue"
    /\ sender[pr].groups = {}
    /\ sender' = [sender EXCEPT ![pr] = NoSend]
    /\ UNCHANGED <<createResult, busPhase, partitionByObject, consumers, numPartitions, offsetCounter, uq,
                   handled, auditVars, cacheVars, ctrlVars, consumerVars, restVars>>

\* a consumer loop that receives the head of the queue and drops it
ConsumeLossy(g, p) ==
    /\ busPhase = "running"
    /\ <<g, p>> \in DOMAIN uq
    /\ uq[<<g, p>>] # <<>>
    /\ uq' = [uq EXCEPT ![<<g, p>>] = Tail(@)]
    /\ UNCHANGED <<createResult, busPhase, partitionByObject, consumers, numPartitions,
                   offsetCounter, sender, handled, auditVars, cacheVars, ctrlVars,
                   consumerVars, restVars>>

\* localConsumer.start's loop: receive the head of the queue, invoke the handler
Consume(g, p) ==
    /\ busPhase = "running"
    /\ <<g, p>> \in DOMAIN uq
    /\ uq[<<g, p>>] # <<>>
    /\ handled' = [handled EXCEPT ![g] = Append(@, Head(uq[<<g, p>>]))]
    /\ uq' = [uq EXCEPT ![<<g, p>>] = Tail(@)]
    /\ UNCHANGED <<createResult, busPhase, partitionByObject, consumers, numPartitions, offsetCounter,
                   sender, auditVars, cacheVars, ctrlVars, consumerVars, restVars>>

InitBus ==
    /\ busPhase = "init"
    /\ partitionByObject \in BOOLEAN
    /\ consumers = <<>>
    /\ numPartitions = 0
    /\ offsetCounter = 0
    /\ uq = <<>>
    /\ sender = [pr \in Producers |-> NoSend]
    /\ handled = <<>>
    /\ createResult = NoCreate

(***************************************************************************)
(* Diff controller: discovery resync and monitors                          *)
(***************************************************************************)
GVRs == {"deployments", "events", "pods"}
\* in this order startMonitor numbers the monitors of one resync
GvrOrder == <<"deployments", "events", "pods">>
\* apiResource.Verbs of a resource kind present in discovery
ResourceVerbs == {{"get", "list", "watch"}, {"get", "list"}, {"get"}}
AbsentResource == [present |-> FALSE, verbs |-> {}]
APIResources == {AbsentResource} \cup {[present |-> TRUE, verbs |-> v] : v \in ResourceVerbs}
\* monitor instances startMonitor may create in one run
MaxMonitors == 3
\* ctrl.monitors has no entry for the gvr
NoMonitor == 0
\* retry.DefaultBackoff.Steps
retrySteps == 4

\* filter.TestGvr: the configured filter rejects events
TestGvr(gvr) == gvr # "events"

shouldMonitorType(gvr, apiResource) ==
    /\ Cardinality({verb \in apiResource.verbs : verb = "list" \/ verb = "watch"}) = 2
    /\ TestGvr(gvr)

\* compareMonitors that also restarts the monitors it already runs
compareMonitorsRestart(expected) ==
    [toStart |-> {gvr \in GVRs : expected[gvr].present
                                  /\ shouldMonitorType(gvr, expected[gvr])},
     toStop  |-> {gvr \in GVRs : monitors[gvr] # NoMonitor /\ ~expected[gvr].present}]

compareMonitors(expected) ==
    [toStart |-> {gvr \in GVRs : expected[gvr].present
                                  /\ shouldMonitorType(gvr, expected[gvr])
                                  /\ monitors[gvr] = NoMonitor},
     toStop  |-> {gvr \in GVRs : monitors[gvr] # NoMonitor /\ ~expected[gvr].present}]

\* the instance startMonitor creates for gvr among toStart
newMonitor(gvr, toStart) ==
    nextMonitor + Cardinality({i \in DOMAIN GvrOrder :
                                  GvrOrder[i] \in toStart
                                  /\ \E j \in DOMAIN GvrOrder : j > i /\ GvrOrder[j] = gvr})

\* the discovery cache reloads and notifies its resync handlers
DiscoveryResync ==
    /\ ~stopped
    /\ discovery' \in [GVRs -> APIResources]
    /\ resyncCh' = TRUE
    /\ fresh' = FALSE
    /\ UNCHANGED <<stopped, monitors, closeCount, nextMonitor, loopPc, monitorsLock,
                   attempts, lastResync, before, auditVars, cacheVars, busVars, consumerVars, restVars>>

\* stopCh is closed
Stop ==
    /\ ~stopped
    /\ stopped' = TRUE
    /\ UNCHANGED <<discovery, resyncCh, monitors, closeCount, nextMonitor, loopPc,
                   monitorsLock, attempts, lastResync, fresh, before,
                   auditVars, cacheVars, busVars, consumerVars, restVars>>

\* resyncMonitorsLoop's select takes the resync notification
LoopResync ==
    /\ loopPc = "select"
    /\ resyncCh
    /\ resyncCh' = FALSE
    /\ loopPc' = "resync"
    /\ attempts' = 0
    /\ UNCHANGED <<discovery, stopped, monitors, closeCount, nextMonitor, monitorsLock,
                   lastResync, fresh, before, auditVars, cacheVars, busVars, consumerVars, restVars>>

\* resyncMonitors whose drain leaves the closed monitors in ctrl.monitors
resyncMonitorsNoDelete ==
    LET expected == discovery
        cmp == compareMonitors(expected)
    IN /\ nextMonitor + Cardinality(cmp.toStart) <= MaxMonitors + 1
       /\ monitors' = [gvr \in GVRs |->
                          IF gvr \in cmp.toStart THEN newMonitor(gvr, cmp.toStart)
                          ELSE monitors[gvr]]
       /\ nextMonitor' = nextMonitor + Cardinality(cmp.toStart)
       /\ closeCount' = [m \in DOMAIN closeCount |->
                            IF \E gvr \in cmp.toStop : monitors[gvr] = m
                            THEN closeCount[m] + 1 ELSE closeCount[m]]
       /\ before' = monitors
       /\ fresh' = TRUE
       /\ lastResync' = "ok"

\* resyncMonitors returns nil: compare, start, add, drain, close
resyncMonitors ==
    LET expected == discovery
        cmp == compareMonitors(expected)
    IN /\ nextMonitor + Cardinality(cmp.toStart) <= MaxMonitors + 1
       /\ monitors' = [gvr \in GVRs |->
                          IF gvr \in cmp.toStop THEN NoMonitor
                          ELSE IF gvr \in cmp.toStart THEN newMonitor(gvr, cmp.toStart)
                          ELSE monitors[gvr]]
       /\ nextMonitor' = nextMonitor + Cardinality(cmp.toStart)
       /\ closeCount' = [m \in DOMAIN closeCount |->
                            IF \E gvr \in cmp.toStop : monitors[gvr] = m
                            THEN closeCount[m] + 1 ELSE closeCount[m]]
       /\ before' = monitors
       /\ fresh' = TRUE
       /\ lastResync' = "ok"

ResyncMonitors ==
    /\ loopPc = "resync"
    /\ resyncMonitors
    /\ loopPc' = "select"
    /\ UNCHANGED <<discovery, resyncCh, stopped, monitorsLock, attempts,
                   auditVars, cacheVars, busVars, consumerVars, restVars>>

\* resyncMonitors returns the error of discovery.ForCluster; retry.OnError
\* calls it again until its steps are used up
ResyncError ==
    /\ loopPc = "resync"
    /\ attempts' = attempts + 1
    /\ lastResync' = "error"
    /\ loopPc' = IF attempts + 1 >= retrySteps THEN "select" ELSE "resync"
    /\ UNCHANGED <<discovery, resyncCh, stopped, monitors, closeCount, nextMonitor,
                   monitorsLock, fresh, before, auditVars, cacheVars, busVars, consumerVars, restVars>>

\* resyncMonitorsLoop's select takes stopCh: the loop ends, monitorsLock is
\* locked, and drainAllMonitors locks it again
LoopStop ==
    /\ loopPc = "select"
    /\ stopped
    /\ monitorsLock' = "write"
    /\ loopPc' = "blocked"
    /\ UNCHANGED <<discovery, resyncCh, stopped, monitors, closeCount, nextMonitor,
                   attempts, lastResync, fresh, before, auditVars, cacheVars, busVars, consumerVars, restVars>>

InitCtrl ==
    /\ discovery = [gvr \in GVRs |-> AbsentResource]
    /\ resyncCh = FALSE
    /\ stopped = FALSE
    /\ monitors = [gvr \in GVRs |-> NoMonitor]
    /\ closeCount = [m \in 1..(MaxMonitors + 1) |-> 0]
    /\ nextMonitor = 1
    /\ loopPc = "select"
    /\ monitorsLock = "free"
    /\ attempts = 0
    /\ lastResync = "none"
    /\ fresh = FALSE
    /\ before = [gvr \in GVRs |-> NoMonitor]

(***************************************************************************)
(* Diff controller: one watched object, the task pool and its workers      *)
(***************************************************************************)
\* notifications the watch stream delivers in one run
MaxEvents == 3
\* --diff-controller-worker-count, as run here
workerCount == 2
Workers == 1..workerCount
\* the object's content besides its metadata
SpecValues == {"a", "b"}
\* the fields diffcmp.Compare walks
ObjectFields == {"metadata.resourceVersion", "metadata.deletionTimestamp",
                 "metadata.labels", "spec"}

\* the store no longer holds the object
Gone == [rv |-> 0]
FirstObject == [rv |-> 1, delTs |-> FALSE, label |-> FALSE, spec |-> "a"]

\* the value of a field as it is written into a diff
FieldOf(obj, path) ==
    CASE path = "metadata.resourceVersion" -> ToString(obj.rv)
      [] path = "metadata.deletionTimestamp" -> IF obj.delTs THEN "set" ELSE ""
      [] path = "metadata.labels" -> IF obj.label THEN "diff-redacted" ELSE ""
      [] path = "spec" -> obj.spec

\* diffcmp.Compare: one entry per field whose value differs
Compare(oldObj, newObj) ==
    {[path |-> f, old |-> FieldOf(oldObj, f), new |-> FieldOf(newObj, f)] :
        f \in {g \in ObjectFields : FieldOf(oldObj, g) # FieldOf(newObj, g)}}

\* testRedacted that looks at the label only
testRedactedLabelOnly(obj) == obj.label

testRedacted(obj) ==
    IF ~obj.label THEN nameRedacted ELSE TRUE

\* monitor.onUpdate: the calls of StoreSnapshot it makes and the patch it stores
onUpdate(oldObj, newObj) ==
    IF oldObj.rv = newObj.rv
    THEN [snapshots |-> 0, patches |-> <<>>]
    ELSE [snapshots |-> IF ~oldObj.delTs /\ newObj.delTs THEN 1 ELSE 0,
          patches |-> << [oldRv |-> oldObj.rv, newRv |-> newObj.rv,
                          redacted |-> (testRedacted(oldObj) \/ testRedacted(newObj)),
                          diffs |-> IF testRedacted(oldObj) \/ testRedacted(newObj)
                                    THEN {[path |-> "metadata.resourceVersion",
                                           old |-> ToString(oldObj.rv),
                                           new |-> ToString(newObj.rv)]}
                                    ELSE Compare(oldObj, newObj),
                          oldObj |-> oldObj, newObj |-> newObj] >>]

\* monitor.onNeedSnapshot: one call of StoreSnapshot
onNeedSnapshot(obj) == [snapshots |-> 1, patches |-> <<>>]

UpdateTask(oldObj, newObj) == [kind |-> "update", old |-> oldObj, new |-> newObj]
SnapshotTask(obj) == [kind |-> "snapshot", old |-> obj, new |-> obj]

runTask(task) ==
    IF task.kind = "update" THEN onUpdate(task.old, task.new) ELSE onNeedSnapshot(task.old)

Idle == [state |-> "idle", task |-> SnapshotTask(Gone)]
Exited == [state |-> "exited", task |-> SnapshotTask(Gone)]

\* the watch stream reports a new state of the object: store.OnUpdate
\* sends the task (a relist reports the same version again)
WatchUpdate ==
    /\ object # Gone
    /\ watchEvents < MaxEvents
    /\ \E newObj \in [rv : {object.rv, object.rv + 1}, delTs : BOOLEAN, label : BOOLEAN,
                      spec : SpecValues] :
           /\ (newObj.rv = object.rv => newObj = object)
           /\ (object.delTs => newObj.delTs)
           /\ object' = newObj
           /\ taskPool' = Append(taskPool, UpdateTask(object, newObj))
    /\ watchEvents' = watchEvents + 1
    /\ UNCHANGED <<deletionSnapshot, nameRedacted, worker, stored, snapshotStores, outsidePool, evVars, tfVars, httpVars>>

\* the watch stream reports the deletion: store.OnDelete sends the task
WatchDelete ==
    /\ object # Gone
    /\ watchEvents < MaxEvents
    /\ object' = Gone
    /\ taskPool' = Append(taskPool, SnapshotTask(object))
    /\ watchEvents' = watchEvents + 1
    /\ UNCHANGED <<deletionSnapshot, nameRedacted, worker, stored, snapshotStores, outsidePool, evVars, tfVars, httpVars>>

\* runWorker receives a task and calls it
TakeTask(w) ==
    /\ worker[w].state = "idle"
    /\ taskPool # <<>>
    /\ worker' = [worker EXCEPT ![w] = [state |-> "busy", task |-> Head(taskPool)]]
    /\ taskPool' = Tail(taskPool)
    /\ UNCHANGED <<deletionSnapshot, nameRedacted, object, watchEvents, stored, snapshotStores, outsidePool, evVars, tfVars, httpVars>>

\* the task returns: its stores are done, the worker is back at its select
FinishTask(w) ==
    /\ worker[w].state = "busy"
    /\ LET r == runTask(worker[w].task)
       IN /\ stored' = stored \o r.patches
          /\ snapshotStores' = snapshotStores + r.snapshots
    /\ worker' = [worker EXCEPT ![w] = Idle]
    /\ UNCHANGED <<deletionSnapshot, nameRedacted, object, watchEvents, taskPool, outsidePool, evVars, tfVars, httpVars>>

\* the task panics: the RecoverPanic deferred outside the loop recovers and
\* runWorker returns
PanicTask(w) ==
    /\ worker[w].state = "busy"
    /\ worker' = [worker EXCEPT ![w] = Exited]
    /\ UNCHANGED <<deletionSnapshot, nameRedacted, object, watchEvents, taskPool, stored, snapshotStores,
                   outsidePool, evVars, tfVars, httpVars>>

InitPool ==
    /\ deletionSnapshot \in BOOLEAN
    /\ nameRedacted \in BOOLEAN
    /\ object = FirstObject
    /\ watchEvents = 0
    /\ taskPool = <<>>
    /\ worker = [w \in Workers |-> Idle]
    /\ stored = <<>>
    /\ snapshotStores = 0

(***************************************************************************)
(* Event informer: watermark in a ConfigMap                                *)
(* Times are half seconds; a formatted time is a whole second.             *)
(***************************************************************************)
\* handleEvent calls in one run
MaxHandled == 2
\* writes of other clients to the ConfigMap in one run
MaxExternal == 1
\* capacity of configMapUpdateCh
updateChCap == 50
\* 5*time.Minute, in half seconds
tooOld == 600
\* the data of the ConfigMap does not parse as a time
Invalid == -1
\* the zero time.Time
ZeroTime == 0
\* clock.Now() of the run
Nows == {1000, 1001}
\* event.EventTime / event.LastTimestamp of the events delivered
EventTimes == {ZeroTime, 398, 996, 997, 998, 1000}
\* data["timestamp"] of a ConfigMap found at startup
StoredTimes == {Invalid, 996}

\* time.Format(time.RFC3339): the fraction of the second is dropped
Format(t) == t - (t % 2)
\* time.Parse(time.RFC3339, s)
Parse(str) == [err |-> str = Invalid, t |-> IF str = Invalid THEN ZeroTime ELSE str]

\* --event-informer-worker-count: the workers runLeader starts
EvWorkers == {1, 2}
\* the event times the workers receive
WorkerEventTimes == {1000}
\* Updates of the ConfigMap in one run with workers
MaxWrites == 3
NoWorkers == <<>>

NoConfigMap == [exists |-> FALSE, ts |-> Invalid, rv |-> 0]
NoEvent == [handled |-> FALSE, T |-> ZeroTime, outcome |-> "", persisted |-> Invalid,
            updater |-> FALSE, sent |-> FALSE]

\* an updater that stores its event's time whatever the ConfigMap holds
updaterOverwrite(eventTime, ts) == Format(eventTime)

\* the updater closure handleEvent sends, applied to the ConfigMap's timestamp
updater(eventTime, ts) ==
    IF Parse(ts).err \/ Parse(ts).t < eventTime THEN Format(eventTime) ELSE ts

\* handleEvent without the comparison with ctrl.lastEventTime
handleEventNoWatermark(eventTime, leader, filterPass, gvkFound, sendErr) ==
    IF ~leader THEN [outcome |-> "NotLeader", updater |-> FALSE, sent |-> FALSE]
    ELSE IF eventTime = ZeroTime
    THEN [outcome |-> "InferTimestamp", updater |-> FALSE, sent |-> FALSE]
    ELSE IF evNow - eventTime > tooOld
    THEN [outcome |-> "EventTooOld", updater |-> FALSE, sent |-> FALSE]
    ELSE IF ~filterPass THEN [outcome |-> "Filtered", updater |-> TRUE, sent |-> FALSE]
    ELSE IF ~gvkFound THEN [outcome |-> "UnknownGVK", updater |-> TRUE, sent |-> FALSE]
    ELSE IF sendErr THEN [outcome |-> "SendTrace", updater |-> TRUE, sent |-> TRUE]
    ELSE [outcome |-> "", updater |-> TRUE, sent |-> TRUE]

\* handleEvent: the metric's error label, whether the updater was sent to
\* configMapUpdateCh and whether aggregator.Send was called
handleEvent(eventTime, leader, filterPass, gvkFound, sendErr) ==
    IF ~leader THEN [outcome |-> "NotLeader", updater |-> FALSE, sent |-> FALSE]
    ELSE IF eventTime = ZeroTime
    THEN [outcome |-> "InferTimestamp", updater |-> FALSE, sent |-> FALSE]
    ELSE IF eventTime < lastEventTime
    THEN [outcome |-> "BeforeRestart", updater |-> FALSE, sent |-> FALSE]
    ELSE IF evNow - eventTime > tooOld
    THEN [outcome |-> "EventTooOld", updater |-> FALSE, sent |-> FALSE]
    ELSE IF ~filterPass THEN [outcome |-> "Filtered", updater |-> TRUE, sent |-> FALSE]
    ELSE IF ~gvkFound THEN [outcome |-> "UnknownGVK", updater |-> TRUE, sent |-> FALSE]
    ELSE IF sendErr THEN [outcome |-> "SendTrace", updater |-> TRUE, sent |-> TRUE]
    ELSE [outcome |-> "", updater |-> TRUE, sent |-> TRUE]

\* syncConfigMap up to its loop that closes startReadyCh whatever happened
loadConfigMapAlwaysReady(getErr, createErr) ==
    IF getErr \/ (~cmServer.exists /\ createErr)
    THEN [pc |-> "failed", ready |-> TRUE, server |-> cmServer, local |-> cmLocal,
          last |-> lastEventTime]
    ELSE LET cm == IF cmServer.exists THEN cmServer
                   ELSE [exists |-> TRUE, ts |-> Format(evNow), rv |-> 1]
         IN [pc |-> "poll", ready |-> TRUE, server |-> cm, local |-> cm,
             last |-> IF Parse(cm.ts).err THEN evNow ELSE Parse(cm.ts).t]

\* syncConfigMap up to its loop: Get, Create when not found, parse, close
\* startReadyCh; an error of Get or Create returns before the close
loadConfigMap(getErr, createErr) ==
    IF getErr \/ (~cmServer.exists /\ createErr)
    THEN [pc |-> "failed", ready |-> FALSE, server |-> cmServer, local |-> cmLocal,
          last |-> lastEventTime]
    ELSE LET cm == IF cmServer.exists THEN cmServer
                   ELSE [exists |-> TRUE, ts |-> Format(evNow), rv |-> 1]
         IN [pc |-> "poll", ready |-> TRUE, server |-> cm, local |-> cm,
             last |-> IF Parse(cm.ts).err THEN evNow ELSE Parse(cm.ts).t]

\* runLeader reaches syncConfigMap, which loads the watermark
LoadConfigMap ==
    /\ syncPc = "init"
    /\ \E getErr, createErr \in BOOLEAN :
           LET r == loadConfigMap(getErr, createErr)
           IN /\ syncPc' = r.pc
              /\ startReadyCh' = r.ready
              /\ cmServer' = r.server
              /\ cmLocal' = r.local
              /\ lastEventTime' = r.last
              \* runLeader returns after syncConfigMap did
              /\ isLeader' = (r.pc # "failed")
    /\ UNCHANGED <<evNow, changed, configMapUpdateCh, evStopped, externalWrites, evHandled,
                   lastEvent, appliedTs, syncedTs, evWorker, outsideEv>>

\* a worker, past <-startReadyCh, receives an event and calls handleEvent
HandleEvent ==
    /\ startReadyCh
    /\ evHandled < MaxHandled
    /\ Len(configMapUpdateCh) < updateChCap
    /\ \E eventTime \in EventTimes, filterPass, gvkFound, sendErr \in BOOLEAN :
           LET r == handleEvent(eventTime, isLeader, filterPass, gvkFound, sendErr)
           IN /\ lastEvent' = [handled |-> TRUE, T |-> eventTime, outcome |-> r.outcome,
                               persisted |-> cmServer.ts, updater |-> r.updater,
                               sent |-> r.sent]
              /\ configMapUpdateCh' = IF r.updater THEN Append(configMapUpdateCh, eventTime)
                                      ELSE configMapUpdateCh
    /\ evHandled' = evHandled + 1
    /\ UNCHANGED <<evNow, cmServer, cmLocal, lastEventTime, startReadyCh, syncPc, changed,
                   evStopped, isLeader, externalWrites, appliedTs, syncedTs, evWorker, outsideEv>>

\* pollConfigLoop receives an updater and applies it to configMap
ApplyUpdater ==
    /\ syncPc = "poll"
    /\ configMapUpdateCh # <<>>
    /\ configMapUpdateCh' = Tail(configMapUpdateCh)
    /\ IF cmLocal.exists
       THEN /\ cmLocal' = [cmLocal EXCEPT !.ts = updater(Head(configMapUpdateCh), cmLocal.ts)]
            /\ changed' = TRUE
            /\ appliedTs' = appliedTs \cup {Head(configMapUpdateCh)}
            /\ UNCHANGED <<syncPc, isLeader>>
       ELSE \* configMap is what the failed refresh returned: the updater's
            \* write to its Data panics and runLeader unwinds
            /\ syncPc' = "panicked"
            /\ isLeader' = FALSE
            /\ UNCHANGED <<cmLocal, changed, appliedTs>>
    /\ UNCHANGED <<evNow, cmServer, lastEventTime, startReadyCh, evStopped,
                   externalWrites, evHandled, lastEvent, syncedTs, evWorker, outsideEv>>

\* configMapClient.Update(configMap) and what syncConfigMap keeps of it
updateConfigMap(updateErr, getErr) ==
    IF cmLocal.rv = cmServer.rv
    THEN IF updateErr
         THEN [server |-> cmServer, local |-> cmLocal, ok |-> FALSE]
         ELSE [server |-> [cmLocal EXCEPT !.rv = cmServer.rv + 1],
               local |-> [cmLocal EXCEPT !.rv = cmServer.rv + 1], ok |-> TRUE]
    ELSE \* conflict: configMap becomes what the Get returns, the local
         \* changes are dropped
         [server |-> cmServer, local |-> IF getErr THEN NoConfigMap ELSE cmServer,
          ok |-> FALSE]

\* pollConfigLoop returns at the end of the interval with changed set
SyncTick ==
    /\ syncPc = "poll"
    /\ changed
    /\ cmLocal.exists
    /\ \E updateErr, getErr \in BOOLEAN :
           LET r == updateConfigMap(updateErr, getErr)
           IN /\ cmServer' = r.server
              /\ cmLocal' = r.local
              /\ syncedTs' = IF r.ok THEN appliedTs ELSE syncedTs
    /\ changed' = FALSE
    /\ UNCHANGED <<evNow, lastEventTime, startReadyCh, syncPc, configMapUpdateCh, evStopped,
                   isLeader, externalWrites, evHandled, lastEvent, appliedTs, evWorker, outsideEv>>

\* pollConfigLoop reports shutdown: the final Update, then runLeader returns
SyncStop ==
    /\ syncPc = "poll"
    /\ evStopped
    /\ \E updateErr \in BOOLEAN :
           IF cmLocal.exists /\ cmLocal.rv = cmServer.rv /\ ~updateErr
           THEN /\ cmServer' = [cmLocal EXCEPT !.rv = cmServer.rv + 1]
                /\ syncedTs' = appliedTs
           ELSE UNCHANGED <<cmServer, syncedTs>>
    /\ syncPc' = "returned"
    /\ isLeader' = FALSE
    /\ UNCHANGED <<evNow, cmLocal, lastEventTime, startReadyCh, changed, configMapUpdateCh,
                   evStopped, externalWrites, evHandled, lastEvent, appliedTs, evWorker, outsideEv>>

\* the leader's stopCh is closed
StopLeader ==
    /\ ~evStopped
    /\ evStopped' = TRUE
    /\ UNCHANGED <<evNow, cmServer, cmLocal, lastEventTime, startReadyCh, syncPc, changed,
                   configMapUpdateCh, isLeader, externalWrites, evHandled, lastEvent,
                   appliedTs, syncedTs, evWorker, outsideEv>>

\* another client updates the ConfigMap without lowering its timestamp
ExternalWrite ==
    /\ cmServer.exists
    /\ externalWrites < MaxExternal
    /\ cmServer' = [cmServer EXCEPT !.rv = cmServer.rv + 1]
    /\ externalWrites' = externalWrites + 1
    /\ UNCHANGED <<evNow, cmLocal, lastEventTime, startReadyCh, syncPc, changed,
                   configMapUpdateCh, evStopped, isLeader, evHandled, lastEvent, appliedTs,
                   syncedTs, evWorker, outsideEv>>

InitEvent ==
    /\ evNow \in Nows
    /\ cmServer \in {NoConfigMap} \cup {[exists |-> TRUE, ts |-> t, rv |-> 1] : t \in StoredTimes}
    /\ cmLocal = NoConfigMap
    /\ lastEventTime = ZeroTime
    /\ startReadyCh = FALSE
    /\ syncPc = "init"
    /\ changed = FALSE
    /\ configMapUpdateCh = <<>>
    /\ evStopped = FALSE
    /\ isLeader = TRUE
    /\ externalWrites = 0
    /\ evHandled = 0
    /\ lastEvent = NoEvent
    /\ appliedTs = {}
    /\ syncedTs = {}
    /\ evWorker = NoWorkers

\* a worker's select receives an event (after <-startReadyCh) and handleEvent
\* runs up to its send to configMapUpdateCh
WorkerReceive(w) ==
    /\ startReadyCh
    /\ evWorker[w].pc = "select"
    /\ \E eventTime \in WorkerEventTimes :
           LET r == handleEvent(eventTime, isLeader, TRUE, TRUE, FALSE)
           IN evWorker' = IF r.updater
                          THEN [evWorker EXCEPT ![w] = [pc |-> "send", T |-> eventTime]]
                          ELSE evWorker
    /\ UNCHANGED <<evNow, cmServer, cmLocal, lastEventTime, startReadyCh, syncPc, changed,
                   configMapUpdateCh, evStopped, isLeader, externalWrites, evHandled,
                   lastEvent, appliedTs, syncedTs, outsideEv>>

\* ctrl.configMapUpdateCh <- updater: the send completes when the channel has
\* room, and handleEvent runs to its end
WorkerSend(w) ==
    /\ evWorker[w].pc = "send"
    /\ Len(configMapUpdateCh) < updateChCap
    /\ configMapUpdateCh' = Append(configMapUpdateCh, evWorker[w].T)
    /\ evWorker' = [evWorker EXCEPT ![w] = [pc |-> "select", T |-> ZeroTime]]
    /\ UNCHANGED <<evNow, cmServer, cmLocal, lastEventTime, startReadyCh, syncPc, changed,
                   evStopped, isLeader, externalWrites, evHandled, lastEvent, appliedTs,
                   syncedTs, outsideEv>>

\* a worker's select receives from stopCh
WorkerExit(w) ==
    /\ startReadyCh
    /\ evWorker[w].pc = "select"
    /\ evStopped
    /\ evWorker' = [evWorker EXCEPT ![w] = [pc |-> "exited", T |-> ZeroTime]]
    /\ UNCHANGED <<evNow, cmServer, cmLocal, lastEventTime, startReadyCh, syncPc, changed,
                   configMapUpdateCh, evStopped, isLeader, externalWrites, evHandled,
                   lastEvent, appliedTs, syncedTs, outsideEv>>

\* runLeader with its workers: a ConfigMap is found at startup
InitWorkers ==
    /\ evNow = 1000
    /\ cmServer = [exists |-> TRUE, ts |-> 996, rv |-> 1]
    /\ cmLocal = NoConfigMap
    /\ lastEventTime = ZeroTime
    /\ startReadyCh = FALSE
    /\ syncPc = "init"
    /\ changed = FALSE
    /\ configMapUpdateCh = <<>>
    /\ evStopped = FALSE
    /\ isLeader = TRUE
    /\ externalWrites = 0
    /\ evHandled = 0
    /\ lastEvent = NoEvent
    /\ appliedTs = {}
    /\ syncedTs = {}
    /\ evWorker = [w \in EvWorkers |-> [pc |-> "select", T |-> ZeroTime]]

(***************************************************************************)
(* Transform pipeline: visitors over a span tree                           *)
(* Operation names and tag values are sequences of strings.                *)
(***************************************************************************)
\* applications of the pipeline to one tree
MaxApplied == 2
\* zconstants: tag keys under the reserved prefix
NestLevel == "zzz-kelemetry-nestingLevel"
SpanName == "zzz-kelemetry-spanName"
ReservedKeys == {NestLevel, SpanName}
\* strings.HasPrefix(key, zconstants.Prefix)
HasPrefix(key) == key \in ReservedKeys
\* ResourceLinkVisitor.ResourceTags
ResourceTags == <<"nodes">>
NoKv == [k |-> "", v |-> <<>>]
Kv(key, val) == [k |-> key, v |-> <<val>>]
Root == 1

\* model.KeyValues.FindByKey: the first tag with the key
FindByKey(tags, key) ==
    IF \E i \in 1..Len(tags) : tags[i].k = key
    THEN tags[CHOOSE i \in 1..Len(tags) :
                  tags[i].k = key /\ \A j \in 1..(i - 1) : tags[j].k # key]
    ELSE NoKv

\* time.Format("15:04") of a time in seconds
Format1504(t) == <<ToString((t \div 3600) % 24), ":", ToString((t \div 60) % 60)>>

\* tree.Children(id) in the order the range over the map yields them
Children(t, id, order) == SelectSeq(order, LAMBDA c : c \in DOMAIN t /\ t[c].parent = id)

\* the spans in the order a depth-first walk enters them
RECURSIVE preOrder(_, _, _)
preOrder(t, stack, order) ==
    IF stack = <<>> THEN <<>>
    ELSE <<Head(stack)>> \o preOrder(t, Children(t, Head(stack), order) \o Tail(stack), order)

\* ReplaceNameVisitor.Enter
ReplaceNameEnter(t, id) ==
    LET named == IF FindByKey(t[id].tags, SpanName).k = SpanName
                 THEN FindByKey(t[id].tags, SpanName).v ELSE t[id].name
        suffix == <<" / ">> \o Format1504(t[id].start) \o <<"..">>
                      \o Format1504(t[id].start + t[id].duration)
    IN [t EXCEPT ![id].name = IF id = Root THEN named \o suffix ELSE named]

\* removeZconstantKeys that keeps every tag
removeZconstantKeysNone(tags) == tags

removeZconstantKeys(tags) == SelectSeq(tags, LAMBDA tag : ~HasPrefix(tag.k))

\* PruneTagsVisitor.Enter
PruneTagsEnter(t, id) ==
    [t EXCEPT ![id].tags = removeZconstantKeys(@),
              ![id].logs = [i \in 1..Len(@) |-> removeZconstantKeys(@[i])]]

\* ResourceLinkVisitor.findTagRecursively, cs the children not yet visited:
\* the tag found and the tree with the tag appended on the way back
RECURSIVE findTagRecursively(_, _, _, _, _)
findTagRecursively(t, id, tagKey, order, cs) ==
    IF FindByKey(t[id].tags, tagKey).k # ""
    THEN [kv |-> FindByKey(t[id].tags, tagKey), tree |-> t]
    ELSE IF cs = <<>> THEN [kv |-> NoKv, tree |-> t]
    ELSE IF FindByKey(t[Head(cs)].tags, NestLevel).v = <<"object">>
    THEN findTagRecursively(t, id, tagKey, order, Tail(cs))
    ELSE LET r == findTagRecursively(t, Head(cs), tagKey, order,
                                     Children(t, Head(cs), order))
         IN IF r.kv.k # ""
            THEN [kv |-> r.kv, tree |-> [r.tree EXCEPT ![id].tags = Append(@, r.kv)]]
            ELSE findTagRecursively(r.tree, id, tagKey, order, Tail(cs))

\* ResourceLinkVisitor.Enter, keys the resource tags not yet handled
RECURSIVE ResourceLinkEnter(_, _, _, _)
ResourceLinkEnter(t, id, order, keys) ==
    IF FindByKey(t[id].tags, NestLevel).v # <<"object">> THEN t
    ELSE IF FindByKey(t[id].tags, "resource").k = "" THEN t
    ELSE IF keys = <<>> THEN t
    ELSE LET r == findTagRecursively(t, id, Head(keys), order, Children(t, id, order))
             link == [k |-> Head(keys) \o "_trace",
                      v |-> <<"/redirect?">> \o FindByKey(r.tree[id].tags, "cluster").v
                               \o <<Head(keys)>> \o r.kv.v
                               \o <<ToString(r.tree[id].start)>>]
             linked == IF r.kv.k # ""
                       THEN [r.tree EXCEPT ![id].tags = Append(@, link)]
                       ELSE r.tree
         IN ResourceLinkEnter(linked, id, order, Tail(keys))

Enter(visitor, t, id, order) ==
    CASE visitor = "ReplaceName" -> ReplaceNameEnter(t, id)
      [] visitor = "PruneTags" -> PruneTagsEnter(t, id)
      [] visitor = "ResourceLink" -> ResourceLinkEnter(t, id, order, ResourceTags)

\* one walk of the tree by one visitor, ids the spans not yet entered
RECURSIVE Visit(_, _, _, _)
Visit(visitor, t, ids, order) ==
    IF ids = <<>> THEN t
    ELSE Visit(visitor, Enter(visitor, t, Head(ids), order), Tail(ids), order)

\* the visitors of the pipeline one after the other
RECURSIVE runPipeline(_, _, _)
runPipeline(steps, t, order) ==
    IF steps = <<>> THEN t
    ELSE runPipeline(Tail(steps),
                     Visit(Head(steps), t, preOrder(t, <<Root>>, order), order), order)

\* the tags of the spans the trees are built of
RootTags ==
    { <<>>,
      <<Kv(NestLevel, "object"), Kv("resource", "pods"), Kv("cluster", "c1")>>,
      <<Kv(SpanName, "pods/p1"), Kv(NestLevel, "object"), Kv("resource", "pods"),
        Kv("nodes", "n1")>> }
ChildTags ==
    { <<>>,
      <<Kv("nodes", "n1")>>,
      <<Kv(SpanName, "event"), Kv("nodes", "n2")>>,
      <<Kv(NestLevel, "object"), Kv("resource", "pods"), Kv("nodes", "n3")>> }
SpanLogs == { <<>>, << <<Kv(SpanName, "x"), Kv("audit", "create")>> >> }
Span(par, tags, logs) ==
    [parent |-> par, name |-> <<"span">>, tags |-> tags, logs |-> logs,
     start |-> 36270, duration |-> 90]
Trees ==
    { <<Span(0, r, l)>> : r \in RootTags, l \in SpanLogs }
    \cup { <<Span(0, r, l), Span(Root, c, <<>>)>> :
             r \in RootTags, l \in SpanLogs, c \in ChildTags }
    \cup { <<Span(0, r, <<>>), Span(Root, c, l), Span(par, d, <<>>)>> :
             r \in RootTags, l \in SpanLogs, c \in ChildTags, d \in ChildTags,
             par \in {Root, 2} }
Pipelines ==
    { <<"ReplaceName", "PruneTags", "ResourceLink">>,
      <<"ResourceLink", "ReplaceName", "PruneTags">>,
      <<"PruneTags", "ResourceLink", "ReplaceName">> }
Orders == { <<2, 3>>, <<3, 2>> }

\* the reader applies the pipeline to the tree
ApplyPipeline ==
    /\ tfApplied < MaxApplied
    /\ tfTree # <<>>
    /\ \E order \in Orders :
           /\ tfTree' = runPipeline(tfSteps, tfTree, order)
           /\ tfOnce' = IF tfApplied = 0 THEN tfTree' ELSE tfOnce
    /\ tfApplied' = tfApplied + 1
    /\ UNCHANGED <<tfSteps, tfInput, auditVars, consumerVars, cacheVars, busVars, ctrlVars, poolVars,
                   evVars, httpVars>>

InitTransform ==
    /\ tfTree \in Trees
    /\ tfSteps \in Pipelines
    /\ tfApplied = 0
    /\ tfOnce = <<>>
    /\ tfInput = tfTree

(***************************************************************************)
(* HTTP endpoints: GET /redirect and the diff API                          *)
(* A response is the status and the kind of body the client receives; a    *)
(* handler that writes nothing leaves the server's status 200, no body.    *)
(***************************************************************************)
\* requests served in one run
MaxServed == 2
\* handleScan's limit when none is parsed
defaultLimit == 100
\* --jaeger-cluster-names
ClusterNames == {"c1"}
\* strings.ToLower on the cluster names used here
ToLower(str) == IF str = "C1" THEN "c1" ELSE str
NoRequest == [route |-> ""]
NoResponse == [status |-> 0, body |-> ""]

\* server.handleGet of /redirect without the check against the cluster list
redirectHandleGetAnyCluster(cluster, resource, name, tsValid, findErr, matches) ==
    IF cluster = "" \/ resource = "" \/ name = ""
    THEN [status |-> 400, body |-> "EmptyParam"]
    ELSE IF ~tsValid THEN [status |-> 400, body |-> "InvalidTimestamp"]
    ELSE IF findErr THEN [status |-> 500, body |-> "TraceError"]
    ELSE IF matches > 1 THEN [status |-> 500, body |-> "MultiTraceMatch"]
    ELSE IF matches = 0 THEN [status |-> 200, body |-> "emptyTrace"]
    ELSE [status |-> 302, body |-> "/trace/<id>"]

\* server.handleGet of /redirect with the route's writing of its error:
\* tsValid: ts parses as RFC3339; findErr, matches: what FindTraceIDs returns
redirectHandleGet(cluster, resource, name, tsValid, findErr, matches) ==
    IF cluster = "" \/ resource = "" \/ name = ""
    THEN [status |-> 400, body |-> "EmptyParam"]
    ELSE IF ~\E knownCluster \in ClusterNames : ToLower(knownCluster) = ToLower(cluster)
    THEN [status |-> 404, body |-> "UnknownCluster"]
    ELSE IF ~tsValid THEN [status |-> 400, body |-> "InvalidTimestamp"]
    ELSE IF findErr THEN [status |-> 500, body |-> "TraceError"]
    ELSE IF matches > 1 THEN [status |-> 500, body |-> "MultiTraceMatch"]
    ELSE IF matches = 0 THEN [status |-> 200, body |-> "emptyTrace"]
    ELSE [status |-> 302, body |-> "/trace/<id>"]

\* GET /redirect
RedirectGet ==
    /\ httpServed < MaxServed
    /\ \E cluster \in {"", "c1", "C1", "c9"}, resource \in {"", "pods"}, name \in {"", "p1"},
          tsValid, findErr \in BOOLEAN, matches \in 0..2 :
           /\ httpRequest' = [route |-> "redirect", cluster |-> cluster,
                              resource |-> resource, name |-> name, tsValid |-> tsValid,
                              findErr |-> findErr, matches |-> matches]
           /\ httpResponse' = redirectHandleGet(cluster, resource, name, tsValid, findErr,
                                                matches)
    /\ httpServed' = httpServed + 1
    /\ UNCHANGED <<auditVars, consumerVars, cacheVars, busVars, ctrlVars, poolVars, evVars,
                   tfVars>>

\* GET /diff/:group/:version/:resource/:namespace/:name/:rv, api.handleGet:
\* lookup is what objectCache.Get returns, fetchErr whether diffCache.Fetch fails
DiffGet ==
    /\ httpServed < MaxServed
    /\ \E lookup \in {"error", "nil", "found"}, rv \in {"100", "101"}, fetchFails \in BOOLEAN :
           LET oldRv == IF UseOldResourceVersion THEN rv ELSE ""
               newRv == IF UseOldResourceVersion THEN "" ELSE rv
               found == IF fetchFails THEN None ELSE Fetch(oldRv, newRv)
           IN /\ httpRequest' = [route |-> "get", lookup |-> lookup, rv |-> rv,
                                 fetchFails |-> fetchFails]
              /\ httpResponse' =
                     IF lookup = "error" THEN [status |-> 200, body |-> ""]
                     ELSE IF lookup = "nil" THEN [status |-> 404, body |-> ""]
                     ELSE IF fetchFails \/ ~found.present THEN [status |-> 404, body |-> ""]
                     ELSE [status |-> 200, body |-> "patch", patch |-> found]
    /\ httpServed' = httpServed + 1
    /\ UNCHANGED <<auditVars, consumerVars, cacheVars, busVars, ctrlVars, poolVars, evVars,
                   tfVars>>

\* GET /diff/:group/:version/:resource/:namespace/:name, api.handleScan:
\* query is the request's query string, parameter name -> value ("": absent);
\* the limit is read from the parameter named "100"
DiffScan ==
    /\ httpServed < MaxServed
    /\ \E limitParam \in {"", "0", "5"}, param100 \in {"", "0", "x"},
          lookup \in {"error", "nil", "found"}, listErr \in BOOLEAN :
           LET limitString == param100
               limit == IF limitString = "0" THEN 0
                        ELSE IF limitString = "5" THEN 5 ELSE defaultLimit
               patches == IF patch.present THEN 1 ELSE 0
           IN /\ httpRequest' = [route |-> "scan", limit |-> limitParam, p100 |-> param100,
                                 lookup |-> lookup, listErr |-> listErr]
              /\ httpResponse' =
                     IF lookup = "error" THEN [status |-> 200, body |-> ""]
                     ELSE IF lookup = "nil" THEN [status |-> 404, body |-> ""]
                     ELSE IF listErr THEN [status |-> 200, body |-> "", asked |-> limit]
                     ELSE [status |-> 200, body |-> "list", asked |-> limit,
                           returned |-> Min(limit, patches)]
    /\ httpServed' = httpServed + 1
    /\ UNCHANGED <<auditVars, consumerVars, cacheVars, busVars, ctrlVars, poolVars, evVars,
                   tfVars>>

InitHttp ==
    /\ httpRequest = NoRequest
    /\ httpResponse = NoResponse
    /\ httpServed = 0

(***************************************************************************)
(* Placeholders of the other components while one specification runs       *)
(***************************************************************************)
InitBusIdle ==
    /\ busPhase = "init"
    /\ partitionByObject = FALSE
    /\ consumers = <<>>
    /\ numPartitions = 0
    /\ offsetCounter = 0
    /\ uq = <<>>
    /\ sender = <<>>
    /\ handled = <<>>
    /\ createResult = NoCreate

InitAuditIdle == InitAudit /\ InitCache

InitPoolIdle ==
    /\ deletionSnapshot = TRUE
    /\ nameRedacted = FALSE
    /\ object = Gone
    /\ watchEvents = 0
    /\ taskPool = <<>>
    /\ worker = <<>>
    /\ stored = <<>>
    /\ snapshotStores = 0

InitEventIdle ==
    /\ evNow = 0
    /\ cmServer = NoConfigMap
    /\ cmLocal = NoConfigMap
    /\ lastEventTime = ZeroTime
    /\ startReadyCh = FALSE
    /\ syncPc = "init"
    /\ changed = FALSE
    /\ configMapUpdateCh = <<>>
    /\ evStopped = FALSE
    /\ isLeader = FALSE
    /\ externalWrites = 0
    /\ evHandled = 0
    /\ lastEvent = NoEvent
    /\ appliedTs = {}
    /\ syncedTs = {}
    /\ evWorker = NoWorkers

InitTransformIdle ==
    /\ tfTree = <<>>
    /\ tfSteps = <<>>
    /\ tfApplied = 0
    /\ tfOnce = <<>>
    /\ tfInput = tfTree

\* the components added after the first four, idle
InitRestIdle == InitPoolIdle /\ InitEventIdle /\ InitTransformIdle /\ InitHttp

InitCtrlIdle ==
    /\ discovery = <<>>
    /\ resyncCh = FALSE
    /\ stopped = FALSE
    /\ monitors = <<>>
    /\ closeCount = <<>>
    /\ nextMonitor = 1
    /\ loopPc = "select"
    /\ monitorsLock = "free"
    /\ attempts = 0
    /\ lastResync = "none"
    /\ fresh = FALSE
    /\ before = <<>>

(***************************************************************************)
(* Specification of the audit consumer with its decorator and cache        *)
(***************************************************************************)
InitSpecAudit == InitAuditIdle /\ InitBusIdle /\ InitCtrlIdle /\ InitRestIdle

PollStep == PollImmediate \/ PollRetry \/ PollStop \/ Tick

NextAudit == HandleMessage \/ Return \/ PollStep \/ StorePatch \/ StoreSnapshot

SpecAudit == InitSpecAudit /\ [][NextAudit]_vars

\* The decorator's goroutine keeps running and the clock keeps advancing.
FairAudit == SpecAudit /\ WF_vars(PollStep)

(***************************************************************************)
(* Specification of the local message bus                                  *)
(***************************************************************************)
InitSpecBus == InitBus /\ InitAuditIdle /\ InitCtrlIdle /\ InitRestIdle

NextBus ==
    \/ CreateConsumer
    \/ Start
    \/ \E pr \in Producers : SendBegin(pr) \/ SendEnqueue(pr) \/ SendReturn(pr)
    \/ \E g \in Groups, p \in Partitions : Consume(g, p)

SpecBus == InitSpecBus /\ [][NextBus]_vars

\* the queue after Start returned nil, with the consumers registered before:
\* one group with every partition, or every group with one partition
InitStarted ==
    /\ busPhase = "running"
    /\ partitionByObject \in BOOLEAN
    /\ consumers \in {("g1" :> Partitions), [g \in Groups |-> {0}]}
    /\ numPartitions = Cardinality(consumers["g1"])
    /\ offsetCounter = 0
    /\ uq = [x \in {<<g, p>> : g \in DOMAIN consumers, p \in consumers["g1"]} |-> <<>>]
    /\ sender = [pr \in Producers |-> NoSend]
    /\ handled = [g \in DOMAIN consumers |-> <<>>]
    /\ createResult = NoCreate

NextDelivery ==
    \/ \E pr \in Producers : SendBegin(pr) \/ SendEnqueue(pr) \/ SendReturn(pr)
    \/ \E g \in Groups, p \in Partitions : Consume(g, p)

\* the started queue, every consumer goroutine scheduled again and again
InitFairBus == InitStarted /\ InitAuditIdle /\ InitCtrlIdle /\ InitRestIdle

FairBus ==
    /\ InitFairBus
    /\ [][NextDelivery]_vars
    /\ \A g \in Groups, p \in Partitions : WF_vars(Consume(g, p))

(***************************************************************************)
(* Specification of the diff controller's monitor reconciliation           *)
(***************************************************************************)
InitSpecCtrl == InitCtrl /\ InitAuditIdle /\ InitBusIdle /\ InitRestIdle

NextCtrl ==
    \/ DiscoveryResync
    \/ Stop
    \/ LoopResync
    \/ ResyncMonitors
    \/ ResyncError
    \/ LoopStop

SpecCtrl == InitSpecCtrl /\ [][NextCtrl]_vars

(***************************************************************************)
(* Specification of the diff controller's task pool                        *)
(***************************************************************************)
InitSpecPool == InitPool /\ InitAuditIdle /\ InitBusIdle /\ InitCtrlIdle /\ InitEventIdle
                    /\ InitTransformIdle /\ InitHttp

NextPool ==
    \/ WatchUpdate
    \/ WatchDelete
    \/ \E w \in Workers : TakeTask(w)
    \/ \E w \in Workers : FinishTask(w)
    \/ \E w \in Workers : PanicTask(w)

SpecPool == InitSpecPool /\ [][NextPool]_vars

(***************************************************************************)
(* Specification of the event informer                                     *)
(***************************************************************************)
InitSpecEvent == InitEvent /\ InitAuditIdle /\ InitBusIdle /\ InitCtrlIdle /\ InitPoolIdle
                     /\ InitTransformIdle /\ InitHttp

NextEvent ==
    \/ LoadConfigMap
    \/ HandleEvent
    \/ ApplyUpdater
    \/ SyncTick
    \/ SyncStop
    \/ StopLeader
    \/ ExternalWrite

SpecEvent == InitSpecEvent /\ [][NextEvent]_vars

\* The event informer's leader with its worker goroutines.
InitSpecWorkers == InitWorkers /\ InitAuditIdle /\ InitBusIdle /\ InitCtrlIdle /\ InitPoolIdle
                       /\ InitTransformIdle /\ InitHttp

SyncTickBounded == cmServer.rv < MaxWrites /\ SyncTick

NextWorkers ==
    \/ LoadConfigMap
    \/ ApplyUpdater
    \/ SyncTickBounded
    \/ SyncStop
    \/ StopLeader
    \/ ExternalWrite
    \/ \E w \in EvWorkers : WorkerReceive(w) \/ WorkerSend(w) \/ WorkerExit(w)

SpecWorkers == InitSpecWorkers /\ [][NextWorkers]_vars

(***************************************************************************)
(* Specification of the transform pipeline                                 *)
(***************************************************************************)
InitSpecTransform ==
    InitTransform /\ InitAuditIdle /\ InitBusIdle /\ InitCtrlIdle /\ InitPoolIdle
        /\ InitEventIdle /\ InitHttp

NextTransform == ApplyPipeline

SpecTransform == InitSpecTransform /\ [][NextTransform]_vars

(***************************************************************************)
(* Specification of the HTTP endpoints over the diff cache                 *)
(***************************************************************************)
InitSpecHttp ==
    InitHttp /\ InitAuditIdle /\ InitBusIdle /\ InitCtrlIdle /\ InitPoolIdle /\ InitEventIdle
        /\ InitTransformIdle

NextHttp ==
    \/ RedirectGet
    \/ DiffGet
    \/ DiffScan
    \/ StorePatch

SpecHttp == InitSpecHttp /\ [][NextHttp]_vars

(***************************************************************************)
(* Properties of the audit consumer and the diff decorator                 *)
(***************************************************************************)
Count(seq, x) == Cardinality({i \in DOMAIN seq : seq[i] = x})

\* the decorator polled the cache for the current message
Polled == msg.decodable /\ retryCount >= 1

\* the event deadline, in seconds after the decoration started
eventDeadline(m) == fetchEventTimeout - m.stageAge

\* the patch in the cache is the one the current message's update produced
PatchMatches ==
    /\ Fetch(ObjectRefResourceVersion(msg), newRvOf(msg)).present

\* an update/patch message whose request version equals the response's
SameVersionUpdate ==
    /\ msg.decodable
    /\ decorateCalls = 1
    /\ msg.verb \in {VerbUpdate, VerbPatch}
    /\ respObjNonNil(msg)
    /\ ObjectRefResourceVersion(msg) = responseRv(msg)

\* C2: a consumed audit message whose stage is not ResponseComplete produces no
\* span: no decorator is invoked and Aggregator.Send is never called for it,
\* whatever its verb, cluster or object reference.
C2_StageFilter ==
    (msg.decodable /\ msg.stage # StageResponseComplete)
        => (decorateCalls = 0 /\ aggregatorSends = 0 /\ pc \in {"done"})

C2_Witness ==
    /\ pc = "done"
    /\ msg.decodable
    /\ msg.stage # StageResponseComplete
    /\ msg.cluster = clusterFilter
    /\ msg.verb = VerbUpdate
    /\ msg.filterPass
    /\ msg.hasObjectRef
    /\ msg.hasStatus
    /\ msg.responseObject = "101"

C4_AsClaimed ==
    Polled => lastFetchAt <= eventDeadline(msg)

\* C4 amended: no retry (an attempt after the first) starts after
\* stageTimestamp + fetchEventTimeout; the first attempt is always made, and
\* it is the only one when that instant has passed before the decoration begins.
C4_RetriesStop ==
    Polled =>
        /\ (retryCount >= 2 => lastFetchAt <= eventDeadline(msg))
        /\ (eventDeadline(msg) <= 0 => retryCount = 1 /\ lastFetchAt = 0)

C4_Witness ==
    /\ pc = "done"
    /\ Polled
    /\ msg.stageAge = 8
    /\ outcome = cacheHitTypeFalse
    /\ retryCount >= 2
    /\ lastFetchAt = eventDeadline(msg) - fetchBackoff

\* C5: a decoration is capped by fetchTotalTimeout: no fetch attempt begins
\* later than fetchTotalTimeout after the decoration started, the poll never
\* waits beyond it, and a decoration that has started to poll terminates; when
\* every lookup missed its outcome is cache-hit-false.
C5_TotalDeadline ==
    /\ [](lastFetchAt <= fetchTotalTimeout)
    /\ [](pc = "wait" => elapsed <= fetchTotalTimeout)
    /\ [](pc \in {"try", "wait"} => <>(pc = "done"))
    /\ [](pc = "done" /\ Polled /\ ~fetched.present => outcome = cacheHitTypeFalse)

C5_Witness ==
    /\ pc = "done"
    /\ Polled
    /\ msg.stageAge = 2
    /\ outcome = cacheHitTypeFalse
    /\ lastFetchAt = fetchTotalTimeout - fetchBackoff
    /\ elapsed = fetchTotalTimeout

\* C6: an update/patch event with a successful response whose request
\* resourceVersion equals the response object's has the outcome label sameRv.
C6_AsClaimed ==
    (pc = "done" /\ SameVersionUpdate /\ msg.code < 300)
        => outcome = cacheHitTypeSameRv

\* C7 as claimed: for an update/patch event whose oldRv equals the response
\* resourceVersion no Fetch is performed and no log entry is appended (stated
\* for the successful responses of the no-op scenario).
C7_AsClaimed ==
    (pc = "done" /\ SameVersionUpdate /\ msg.code < 300)
        => (retryCount = 0 /\ lastFetchAt = -1 /\ eventLogs = <<>>)

\* C7 amended: for an update/patch event whose oldRv equals the response
\* resourceVersion no Fetch is performed (zero retries, no retry count
\* recorded) and no diff log or tag is added; the event receives exactly one
\* verbose "No-op update" log when the response succeeded, and only the
\* response's error logs when it failed.
C7_NoopUntouched ==
    (pc = "done" /\ SameVersionUpdate)
        => /\ retryCount = 0
           /\ lastFetchAt = -1
           /\ retryHist = -1
           /\ eventTags = {}
           /\ Count(eventLogs, LogTypeObjectDiff) = 0
           /\ (msg.code < 300 => eventLogs = <<LogTypeRealVerbose>>)
           /\ (msg.code >= 300 => \A i \in DOMAIN eventLogs : eventLogs[i] = LogTypeRealError)
           /\ aggregatorSends = 1

C7_Witness ==
    /\ pc = "done"
    /\ SameVersionUpdate
    /\ msg.verb = VerbUpdate
    /\ msg.code < 300
    /\ eventLogs = <<LogTypeRealVerbose>>
    /\ patch.present

\* the decoration of a create/delete event found its snapshot in the cache
SnapshotFound ==
    /\ pc = "done"
    /\ Polled
    /\ msg.verb \in {VerbCreate, VerbDelete}
    /\ fetched.present

\* C8 as claimed: a create/delete event whose snapshot was found in the cache
\* at some fetch attempt carries exactly one snapshot log.
C8_AsClaimed ==
    SnapshotFound => Count(eventLogs, LogTypeObjectSnapshot) = 1

\* C8 amended: a create/delete event whose snapshot was found in the cache at
\* some fetch attempt carries exactly one snapshot log when the snapshot is
\* not redacted (never one per retry) and no snapshot log when it is redacted.
C8_OneSnapshotLog ==
    SnapshotFound =>
        /\ Count(eventLogs, LogTypeObjectSnapshot) = (IF fetched.redacted THEN 0 ELSE 1)
        /\ outcome = cacheHitTypeTrue

C8_Witness ==
    /\ SnapshotFound
    /\ msg.verb = VerbDelete
    /\ ~fetched.redacted
    /\ retryCount >= 3
    /\ Count(eventLogs, LogTypeObjectSnapshot) = 1

\* C13: the audit pipeline does not end on a bad record: after a message that
\* cannot be decoded, is rejected by the filter, has no reconstructible object
\* reference or makes handling panic, the consumer goroutine is still running
\* and takes the next message of its partition.
C13_ConsumerSurvives ==
    /\ (pc = "done" /\ BadRecord(msg) => auditConsumer = "running")
    /\ (badSeen => auditConsumer = "running")
    /\ (badSeen /\ pc = "idle" => ENABLED HandleMessage)

C13_Witness ==
    /\ badSeen
    /\ pc = "done"
    /\ msg.decodable
    /\ aggregatorSends = 1
    /\ auditConsumer = "running"

\* C30: for every audit message the consumer accepts, the decorators run
\* exactly once and have returned before the single Aggregator.Send for that
\* message; a message rejected by verb, stage, filter or failed object
\* reference reconstruction triggers neither decorators nor Send.
C30_DecorateThenSend ==
    pc # "idle" =>
        /\ decorateCalls <= 1
        /\ aggregatorSends <= 1
        /\ (aggregatorSends = 1 => decorateCalls = 1 /\ pc = "done")
        /\ (pc \in {"try", "wait"} => decorateCalls = 1 /\ aggregatorSends = 0)
        /\ (handleMessageExit(msg) = "item" /\ handleItemExit(msg) = "accept" /\ pc = "done"
                => decorateCalls = 1 /\ aggregatorSends = 1)
        /\ (handleMessageExit(msg) = "item"
                /\ handleItemExit(msg) \in {"verb", "stage", "filter", "objectRef"}
                => decorateCalls = 0 /\ aggregatorSends = 0 /\ pc = "done")

C30_Witness ==
    /\ pc = "done"
    /\ handleMessageExit(msg) = "item"
    /\ handleItemExit(msg) = "accept"
    /\ retryCount >= 2
    /\ decorateCalls = 1
    /\ aggregatorSends = 1

\* C31: the field of an accepted audit event is a total function of verb and
\* subresource: "status" exactly when verb=update and subresource=status,
\* "deletion" exactly when verb=delete, "spec" in every other case.
C31_Field ==
    decorateCalls = 1 =>
        /\ eventField \in {"status", "deletion", "spec"}
        /\ (eventField = "status" <=> msg.verb = VerbUpdate /\ msg.subresource = "status")
        /\ (eventField = "deletion" <=> msg.verb = VerbDelete)

C31_Witness ==
    /\ aggregatorSends = 1
    /\ msg.verb = VerbPatch
    /\ msg.subresource = "status"
    /\ eventField = "spec"

ErrorSurfaced ==
    Count(eventLogs, LogTypeKelemetryError)
        > (IF msg.verb \in {VerbUpdate, VerbPatch} /\ fetched.present /\ fetched.redacted
           THEN 1 ELSE 0)

\* C33: a diff cache error during decoration is retried rather than surfaced:
\* once the backoff after a failed attempt has passed and the deadlines are
\* not reached, another attempt is made; a later hit gives cache-hit-true with
\* no error logged; the error is logged (outcome cache-hit-false) only when
\* the poll ended on its deadline without a hit.
C33_ErrorRetried ==
    /\ [](pc = "wait" /\ fetchErr => outcome = "" /\ aggregatorSends = 0 /\ ~ErrorSurfaced)
    /\ ((pc = "wait" /\ fetchErr /\ elapsed = nextTick /\ nextTick < retryDeadline(msg))
            ~> (retryCount >= 2 /\ lastFetchAt = elapsed))
    /\ [](pc = "done" /\ Polled /\ fetched.present
            => outcome = cacheHitTypeTrue /\ ~ErrorSurfaced)
    /\ [](pc = "done" /\ Polled /\ ErrorSurfaced
            => /\ outcome = cacheHitTypeFalse
               /\ ~fetched.present
               /\ fetchErr
               /\ elapsed >= retryDeadline(msg))

C33_Witness ==
    /\ pc = "done"
    /\ Polled
    /\ anyFetchErr
    /\ ~fetchErr
    /\ fetched.present
    /\ retryCount >= 3
    /\ outcome = cacheHitTypeTrue
    /\ ~ErrorSurfaced

\* C34: redacted content never reaches the trace: after a hit on a redacted
\* patch the event has the redaction log only (no diff log, no informer
\* latency tag), after a hit on a redacted snapshot it has no objectSnapshot
\* log; in both cases the outcome is cache-hit-true and the retries stop.
C34_RedactedKeptOut ==
    (pc = "done" /\ Polled /\ fetched.present /\ fetched.redacted)
        => /\ outcome = cacheHitTypeTrue
           /\ retryHist = retryCount
           /\ aggregatorSends = 1
           /\ eventTags = {}
           /\ eventLogs = IF msg.verb \in {VerbUpdate, VerbPatch}
                          THEN <<LogTypeKelemetryError>> ELSE <<>>

C34_Witness ==
    /\ pc = "done"
    /\ Polled
    /\ msg.verb = VerbUpdate
    /\ fetched.present
    /\ fetched.redacted
    /\ retryCount >= 2
    /\ eventLogs = <<LogTypeKelemetryError>>

\* C40 as claimed: the first attempt that hits ends the polling, and the event
\* has exactly one diff, redaction or snapshot log from that decoration.
C40_AsClaimed ==
    fetched.present =>
        /\ pc = "done"
        /\ lastFetchAt = elapsed
        /\ Len(eventLogs) = 1
        /\ eventLogs[1] \in {LogTypeObjectDiff, LogTypeKelemetryError, LogTypeObjectSnapshot}

\* C40 amended: the first attempt that hits ends the polling (no attempt
\* follows it); the event then has exactly one diff or redaction log for an
\* update, exactly one snapshot log for a create or delete whose snapshot is
\* not redacted, and no log when the snapshot is redacted, however many
\* attempts missed before.
C40_HitEndsPolling ==
    fetched.present =>
        /\ pc = "done"
        /\ lastFetchAt = elapsed
        /\ retryHist = retryCount
        /\ outcome = cacheHitTypeTrue
        /\ eventLogs = IF msg.verb \in {VerbUpdate, VerbPatch}
                       THEN IF fetched.redacted THEN <<LogTypeKelemetryError>>
                            ELSE <<LogTypeObjectDiff>>
                       ELSE IF fetched.redacted THEN <<>>
                            ELSE <<LogTypeObjectSnapshot>>

C40_Witness ==
    /\ fetched.present
    /\ retryCount >= 3
    /\ anyFetchErr
    /\ msg.verb = VerbUpdate
    /\ ~fetched.redacted
    /\ eventLogs = <<LogTypeObjectDiff>>

(***************************************************************************)
(* Properties of the local message bus                                     *)
(***************************************************************************)
\* C1: with partition-by-object enabled, any two messages sent with the same
\* partition key are handed to every consumer group's handler in the order of
\* the offsets the producer assigned them.
C1_AsClaimed ==
    partitionByObject =>
        \A g \in DOMAIN handled : \A i, j \in DOMAIN handled[g] :
            (i < j /\ handled[g][i].key = handled[g][j].key)
                => handled[g][i].offset < handled[g][j].offset

\* C25: CreateConsumer returns an error exactly for a (group, partition) pair
\* that is registered already, and then leaves the registrations and their
\* queues as they are; a first registration succeeds and adds the pair.
C25_DuplicateConsumer ==
    [][(createResult' # createResult /\ createResult' # NoCreate) =>
          LET g == createResult'.g
              p == createResult'.p
              existed == g \in DOMAIN consumers /\ p \in consumers[g]
          IN /\ createResult'.err = existed
             /\ createResult'.err => (consumers' = consumers /\ uq' = uq /\ handled' = handled)
             /\ ~createResult'.err =>
                    (/\ p \in consumers'[g]
                     /\ uq'[<<g, p>>] = <<>>
                     /\ \A x \in DOMAIN uq : uq'[x] = uq[x])]_vars

C25_Witness ==
    /\ createResult.err
    /\ createResult.g \in DOMAIN consumers
    /\ consumers[createResult.g] = {0, 1}

\* C26: when two groups registered different numbers of partitions Start fails
\* and no consumer ever handles a message; when Start succeeds every group has
\* the producer's number of partitions.
C26_PartitionCounts ==
    /\ busPhase = "failed" =>
           /\ \E g1, g2 \in DOMAIN consumers :
                  Cardinality(consumers[g1]) # Cardinality(consumers[g2])
           /\ \A g \in DOMAIN handled : handled[g] = <<>>
           /\ \A g \in Groups, p \in Partitions : ~ENABLED Consume(g, p)
           /\ \A pr \in Producers : ~ENABLED SendBegin(pr)
    /\ busPhase = "running" =>
           \A g \in DOMAIN consumers : Cardinality(consumers[g]) = numPartitions

C26_Witness ==
    /\ busPhase = "failed"
    /\ DOMAIN consumers = Groups
    /\ consumers["g1"] = {0, 1}

\* the partitions on which a message with this key is enqueued or about to be
PartitionsOf(key) ==
    {x[2] : x \in {y \in DOMAIN uq : \E i \in DOMAIN uq[y] : uq[y][i].key = key}}
    \cup {sender[pr].partition :
             pr \in {q \in Producers : sender[q].state = "enqueue" /\ sender[q].key = key}}

\* C27 as claimed: with partition-by-object, any two sends with equal keys
\* are enqueued on the same partition.
C27_AsClaimed ==
    partitionByObject => \A key \in Keys : Cardinality(PartitionsOf(key)) <= 1

\* C27 amended: with partition-by-object and a queue of N >= 1 partitions,
\* sends with equal non-nil keys choose the same partition, which is the
\* FNV-1 hash of the key modulo N and lies within 0..N-1.
C27_StablePartition ==
    (partitionByObject /\ numPartitions >= 1) =>
        \A key \in Keys \ {NilKey} :
            /\ Cardinality(PartitionsOf(key)) <= 1
            /\ PartitionsOf(key) \subseteq 0..(numPartitions - 1)
            /\ PartitionsOf(key) \subseteq {Mod32(fnvSum32(fnvOffset32, key), numPartitions)}

C27_Witness ==
    /\ partitionByObject
    /\ numPartitions = 2
    /\ \E g \in DOMAIN consumers, p \in Partitions :
           /\ Len(uq[<<g, p>>]) = 2
           /\ uq[<<g, p>>][1].key = uq[<<g, p>>][2].key
           /\ uq[<<g, p>>][1].key # NilKey

\* offset o was handed to the handler of group g
HandledBy(g, o) == \E i \in DOMAIN handled[g] : handled[g][i].offset = o

\* C28: a message whose Send has enqueued it for every group and returns nil
\* is eventually passed to the handler of each registered consumer group (in
\* runs where the consumer goroutines keep being scheduled).
C28_AtLeastOnce ==
    \A o \in 1..MaxSends :
        (\E pr \in Producers : /\ sender[pr].state = "enqueue"
                                /\ sender[pr].groups = {}
                                /\ sender[pr].offset = o)
            ~> (\A g \in DOMAIN consumers : HandledBy(g, o))

C28_Witness ==
    /\ busPhase = "running"
    /\ DOMAIN consumers = Groups
    /\ offsetCounter = 2
    /\ \A g \in Groups : HandledBy(g, 1) /\ HandledBy(g, 2)
    /\ \A pr \in Producers : sender[pr] = NoSend

\* C36: after Start succeeded every group has registered exactly the
\* partitions 0..N-1, so every Send finds in every group a consumer for the
\* partition it selected.
C36_AsClaimed ==
    busPhase = "running" =>
        /\ \A g \in DOMAIN consumers : consumers[g] = 0..(numPartitions - 1)
        /\ \A pr \in DOMAIN sender : sender[pr].state # "panicked"

(***************************************************************************)
(* Properties of the diff controller                                       *)
(***************************************************************************)
Running == {gvr \in GVRs : monitors[gvr] # NoMonitor}

\* the kinds that should be monitored: present in discovery, supporting list
\* and watch, accepted by the filter
Expected == {gvr \in GVRs : discovery[gvr].present /\ shouldMonitorType(gvr, discovery[gvr])}

\* resyncMonitors has completed and discovery has not changed since
Resynced == lastResync = "ok" /\ fresh

\* C11: when the stop signal is raised the leader loop ends: it is never left
\* waiting for the monitor lock that it holds itself.
C11_AsClaimed == ~(loopPc = "blocked" /\ monitorsLock = "write")

\* C9: after a resync completes, the kinds with a running monitor are exactly
\* the expected kinds that should be monitored.
C9_AsClaimed == Resynced => Running = Expected

\* C10: a resync leaves retained monitors alone: a kind that was running
\* before the resync and is still expected keeps the same monitor instance,
\* and that instance's stop channel is not closed.
C10_RetainedUndisturbed ==
    Resynced =>
        \A gvr \in GVRs :
            (before[gvr] # NoMonitor /\ gvr \in Expected)
                => (monitors[gvr] = before[gvr] /\ closeCount[before[gvr]] = 0)

C10_Witness ==
    /\ Resynced
    /\ before["pods"] # NoMonitor
    /\ "pods" \in Expected
    /\ monitors["pods"] = before["pods"]
    /\ before["deployments"] = NoMonitor
    /\ monitors["deployments"] # NoMonitor
    /\ \E m \in DOMAIN closeCount : closeCount[m] = 1

\* C37: across resyncs followed by shutdown no monitor's stop channel is
\* closed more than once, and every monitor removed from the monitor map is
\* closed exactly once, while a monitor still in the map is not closed.
C37_ClosedOnce ==
    \A m \in 1..(nextMonitor - 1) :
        /\ closeCount[m] <= 1
        /\ (closeCount[m] = 1 <=> \A gvr \in GVRs : monitors[gvr] # m)

C37_Witness ==
    /\ stopped
    /\ loopPc = "blocked"
    /\ nextMonitor >= 3
    /\ \E m \in 1..(nextMonitor - 1) : closeCount[m] = 1
    /\ \E gvr \in GVRs : monitors[gvr] # NoMonitor

(***************************************************************************)
(* Properties of the diff controller's task pool                           *)
(***************************************************************************)
\* the workers whose runWorker goroutine still receives tasks
LiveWorkers == {w \in Workers : worker[w].state # "exited"}

\* C12: a panic inside a worker loop is caught at the worker boundary and the
\* worker restarts: the same number of workers keeps draining the queue.
C12_AsClaimed == Cardinality(LiveWorkers) = workerCount

\* C14: over the object's lifetime StoreSnapshot(object, deletion) is issued
\* at most once, across the update that first sets the deletion timestamp and
\* the later delete notification.
C14_AsClaimed == snapshotStores <= 1

\* C29: with --diff-controller-deletion-snapshot disabled the controller
\* stores no deletion snapshot.
C29_AsClaimed == ~deletionSnapshot => snapshotStores = 0

\* C15: a patch stored for an update of an object whose g/v/r/namespace/name
\* matches the redaction pattern, or whose old or new version carries the
\* redaction label, has redacted = TRUE and a diff list of the one entry
\* metadata.resourceVersion old -> new; any other stored patch has
\* redacted = FALSE and the structural diff of old and new as its diff list.
C15_Redaction ==
    \A i \in DOMAIN stored :
        LET p == stored[i]
            sensitive == nameRedacted \/ p.oldObj.label \/ p.newObj.label
        IN /\ sensitive =>
                 /\ p.redacted
                 /\ p.diffs = {[path |-> "metadata.resourceVersion",
                                old |-> ToString(p.oldObj.rv),
                                new |-> ToString(p.newObj.rv)]}
           /\ ~sensitive =>
                 /\ ~p.redacted
                 /\ p.diffs = Compare(p.oldObj, p.newObj)

C15_Witness ==
    /\ nameRedacted
    /\ Len(stored) = 2
    /\ stored[1].redacted /\ ~stored[1].oldObj.label /\ ~stored[1].newObj.label
    /\ stored[1].oldObj.spec # stored[1].newObj.spec
    /\ Cardinality(stored[1].diffs) = 1
    /\ stored[2].redacted

\* C16: updates of one object are serialized: a worker begins an update of the
\* object only when no other worker is processing one, and the patches are
\* stored in resource-version order.
C16_AsClaimed ==
    /\ \A v, w \in Workers :
           (v # w /\ worker[v].state = "busy" /\ worker[v].task.kind = "update")
               => ~(worker[w].state = "busy" /\ worker[w].task.kind = "update")
    /\ \A i, j \in DOMAIN stored : i < j => stored[i].newRv <= stored[j].oldRv

(***************************************************************************)
(* Properties of the event informer                                        *)
(***************************************************************************)
\* C17: once the writer has synced after an event with timestamp T was
\* handled, the timestamp persisted in the ConfigMap is no lower than T (read
\* at the precision of the stored format), also after a conflicting write.
C17_AsClaimed ==
    \A T \in syncedTs : cmServer.ts # Invalid /\ cmServer.ts >= Format(T)

\* C18 as claimed: an event whose timestamp is earlier than the watermark
\* persisted when it is handled is never sent to the Aggregator.
C18_AsClaimed ==
    (/\ lastEvent.handled
     /\ lastEvent.T # ZeroTime
     /\ lastEvent.persisted # Invalid
     /\ lastEvent.T < lastEvent.persisted)
        => ~lastEvent.sent

\* C18 amended: an event whose timestamp is earlier than the watermark loaded
\* when the leader started (ctrl.lastEventTime) is dropped with outcome
\* BeforeRestart, is never sent to the Aggregator and enqueues no watermark
\* update; every event that is sent has a timestamp no earlier than it.
C18_BeforeRestart ==
    /\ (/\ lastEvent.handled
        /\ lastEvent.outcome # "NotLeader"
        /\ lastEvent.T # ZeroTime
        /\ lastEvent.T < lastEventTime)
           => (lastEvent.outcome = "BeforeRestart" /\ ~lastEvent.sent /\ ~lastEvent.updater)
    /\ lastEvent.sent => lastEvent.T >= lastEventTime
    /\ \A T \in appliedTs : T >= lastEventTime

C18_Witness ==
    /\ lastEvent.handled
    /\ lastEvent.outcome = "BeforeRestart"
    /\ lastEvent.T = 997
    /\ lastEventTime = 1000
    /\ syncedTs # {}

\* C19: no event is handled before the watermark has been loaded: a handled
\* event finds startReadyCh closed and syncConfigMap past its loading; when the
\* loading fails no event is ever handled and nothing is queued.
C19_WorkersAfterWatermark ==
    /\ (evHandled > 0 \/ configMapUpdateCh # <<>> \/ lastEvent.handled)
           => (startReadyCh /\ syncPc \in {"poll", "returned", "panicked"})
    /\ syncPc \in {"init", "failed"}
           => (~startReadyCh /\ evHandled = 0 /\ ~lastEvent.handled
               /\ configMapUpdateCh = <<>> /\ ~ENABLED HandleEvent)

C19_Witness ==
    /\ syncPc = "poll"
    /\ startReadyCh
    /\ lastEvent.sent
    /\ lastEventTime = 996

\* C35: after the stop signal syncConfigMap issues one last Update of the
\* ConfigMap that carries every watermark updater it has applied so far, then
\* returns.
C35_AsClaimed ==
    syncPc = "returned" =>
        /\ cmLocal.exists
        /\ \A T \in appliedTs : ~Parse(cmLocal.ts).err /\ Parse(cmLocal.ts).t >= Format(T)

\* C39: the watermark persisted by the event informer never decreases: from
\* one write of the ConfigMap to the next the stored timestamp does not get
\* lower, in whatever order updaters with different timestamps are applied.
C39_WatermarkMonotonic ==
    [][(cmServer.exists /\ ~Parse(cmServer.ts).err)
          => /\ cmServer'.exists
             /\ ~Parse(cmServer'.ts).err
             /\ Parse(cmServer'.ts).t >= Parse(cmServer.ts).t]_vars

C39_Witness ==
    /\ syncedTs = {998, 1000}
    /\ lastEvent.T = 998
    /\ cmServer.rv >= 3
    /\ cmServer.ts = 1000

\* C38: no event informer worker stays blocked forever on the watermark
\* mailbox: no worker is at its send while the mailbox is full and the writer
\* that receives from it has returned.
C38_AsClaimed ==
    \A w \in DOMAIN evWorker :
        ~(/\ evWorker[w].pc = "send"
          /\ Len(configMapUpdateCh) = updateChCap
          /\ syncPc \in {"returned", "panicked"})

(***************************************************************************)
(* Properties of the transform pipeline                                    *)
(***************************************************************************)
\* C20 as claimed: a second application of the pipeline yields the tree the
\* first application produced.
C20_AsClaimed ==
    tfApplied = 2 => tfTree = tfOnce

SecondSuffix ==
    <<" / ">> \o Format1504(tfOnce[Root].start) \o <<"..">>
        \o Format1504(tfOnce[Root].start + tfOnce[Root].duration)

\* C20 amended: a second application leaves every span's tags and logs and
\* every span's operation name but the root's as the first application
\* produced them; the root's operation name gets the time-range suffix again.
C20_SecondPass ==
    tfApplied = 2 =>
        /\ DOMAIN tfTree = DOMAIN tfOnce
        /\ \A id \in DOMAIN tfTree :
               /\ tfTree[id].tags = tfOnce[id].tags
               /\ tfTree[id].logs = tfOnce[id].logs
               /\ id # Root => tfTree[id].name = tfOnce[id].name
        /\ tfTree[Root].name = tfOnce[Root].name \o SecondSuffix

C20_Witness ==
    /\ tfApplied = 2
    /\ Len(tfTree) = 3
    /\ FindByKey(tfTree[Root].tags, "nodes_trace").k # ""
    /\ FindByKey(tfTree[Root].tags, "nodes").v = <<"n2">>
    /\ tfTree[3].name = <<"event">>

\* C21: two equal input trees processed with the same configuration yield the
\* same output tree: whatever order the children are visited in, the pipeline
\* produces from the input the tree the first application produced.
C21_AsClaimed ==
    tfApplied >= 1 => \A order \in Orders : runPipeline(tfSteps, tfInput, order) = tfOnce

(***************************************************************************)
(* Properties of the HTTP endpoints                                        *)
(***************************************************************************)
\* C22 as claimed: a GET /redirect is answered 400 when its validation fails
\* (cluster, resource or name empty, or ts not RFC3339), otherwise 302 on one
\* match, 200 on none and 500 on several.
C22_AsClaimed ==
    (httpRequest.route = "redirect" /\ ~httpRequest.findErr) =>
        httpResponse.status =
            IF \/ "" \in {httpRequest.cluster, httpRequest.resource, httpRequest.name}
               \/ ~httpRequest.tsValid
            THEN 400
            ELSE IF httpRequest.matches = 1 THEN 302
            ELSE IF httpRequest.matches = 0 THEN 200 ELSE 500

\* C22 amended: 400 when cluster, resource or name is empty; else 404 when the
\* cluster is in the cluster list under no spelling of its case; else 400 when
\* ts is not RFC3339; else 500 when the trace lookup fails or matches several
\* traces, 200 with the empty trace when it matches none, 302 on one match.
C22_Outcomes ==
    httpRequest.route = "redirect" =>
        LET r == httpRequest
            known == r.cluster \in {"c1", "C1"}
        IN /\ httpResponse.status \in {400, 404, 500, 200, 302}
           /\ httpResponse.status = 400 <=>
                  \/ "" \in {r.cluster, r.resource, r.name}
                  \/ known /\ ~r.tsValid
           /\ httpResponse.status = 404 <=>
                  "" \notin {r.cluster, r.resource, r.name} /\ ~known
           /\ ("" \notin {r.cluster, r.resource, r.name} /\ known /\ r.tsValid) =>
                  /\ httpResponse.status = 500 <=> (r.findErr \/ r.matches > 1)
                  /\ httpResponse.status = 200 <=> (~r.findErr /\ r.matches = 0)
                  /\ httpResponse.status = 302 <=> (~r.findErr /\ r.matches = 1)
                  /\ httpResponse.status = 200 => httpResponse.body = "emptyTrace"

C22_Witness ==
    /\ httpRequest.route = "redirect"
    /\ httpRequest.cluster = "c9"
    /\ httpRequest.resource = "pods"
    /\ httpRequest.name = "p1"
    /\ httpResponse.status = 404

\* C23: the scan endpoint asks the cache for, and returns, at most N patches
\* when the request carries limit=N, and asks for 100 when it carries no limit.
C23_AsClaimed ==
    (httpRequest.route = "scan" /\ httpResponse.body = "list") =>
        /\ httpRequest.limit = "" => httpResponse.asked = defaultLimit
        /\ httpRequest.limit = "0" => (httpResponse.asked = 0 /\ httpResponse.returned <= 0)
        /\ httpRequest.limit = "5" => (httpResponse.asked = 5 /\ httpResponse.returned <= 5)

\* C24: a get of one resource version is answered with the patch stored for
\* that version under the cache's keying mode, or with 404, and nothing else.
C24_AsClaimed ==
    httpRequest.route = "get" =>
        \/ httpResponse.status = 404
        \/ /\ httpResponse.status = 200
           /\ httpResponse.body = "patch"
           /\ httpResponse.patch.present
           /\ httpRequest.rv = (IF UseOldResourceVersion THEN httpResponse.patch.old
                                ELSE httpResponse.patch.new)

====
